---- MODULE Spec2Model ----
(***************************************************************************)
(* Verification model of the Bolivia transmission-network tooling:         *)
(*   download_bolivia_electricity_map.py  (resilient HTTP client, fetch    *)
(*                                          pipeline)                      *)
(*   merge_qids_back.py                   (reconciliation engine)          *)
(*                                                                         *)
(* Text is modelled as a sequence of tokens; substring search is token     *)
(* membership, lower() maps every token to its lower-case form, and the    *)
(* token "PAD" stands for 4000 characters of filler so that text[:4000]    *)
(* is the part of the text before it.                                      *)
(***************************************************************************)
EXTENDS Integers, Sequences, FiniteSets, TLC

VARIABLES
  \* ---- get_with_retries (download_bolivia_electricity_map.py) ----
  max_retries,   \* the max_retries argument
  attempt,       \* the local counter `attempt`
  g_pc,          \* "loop" | "returned" | "raised"
  sent,          \* number of session.get calls made
  retry_lines,   \* sequence of the attempt numbers printed in "[retry k/n]" lines
  sleeps,        \* number of time.sleep calls made
  last,          \* outcome of the latest session.get call
  result,        \* the response returned to the caller
  raised         \* the exception that left get_with_retries

VARIABLES
  \* ---- fetch_wfs_geojson (download_bolivia_electricity_map.py) ----
  page_size,     \* the page_size argument
  f_pc,          \* "page" | "oneshot" | "export" | "returned" | "raised"
  start,         \* the local `start`
  attempts,      \* the local `attempts` (pages taken so far)
  features,      \* the local `features`
  calls,         \* the get_with_retries calls made so far, in order, with what each gave
  fetched,       \* what fetch_wfs_geojson returned: the [SOURCE] line and the features
  f_error        \* the exception that left fetch_wfs_geojson

VARIABLES
  \* ---- main (merge_qids_back.py) ----
  rows_in,          \* the rows of INPUT_CSV as read
  remote,           \* the remote snapshot: looked-up code -> descriptions of its items
  df,               \* the data frame
  unique_codes,     \* the local `unique_codes`
  m_pc,             \* "load" | "batch" | "resolve" | "finish" | "done" | "raised"
  batch_no,         \* number of batches taken from chunked(unique_codes, BATCH_SIZE)
  queries,          \* the lookups issued: the batch, and the VALUES its query names
  responses,        \* the bindings each successful lookup returned
  code_to_hits,     \* the local `code_to_hits`
  total_candidates, \* the local `total_candidates`
  row_i,            \* number of rows the resolve loop has handled
  chosen_qids,      \* the local `chosen_qids`
  unresolved,       \* the local `unresolved`
  ambiguous,        \* the local `ambiguous`
  out_csv,          \* OUT_CSV as written: its header and rows, or NotWritten
  out_geojson       \* OUT_GEOJSON as written: its features, or NotWritten

mergeVars == <<rows_in, remote, df, unique_codes, m_pc, batch_no, queries, responses,
               code_to_hits, total_candidates, row_i, chosen_qids, unresolved, ambiguous,
               out_csv, out_geojson>>

VARIABLES
  \* ---- the batch loop of main() and http_post_sparql, in time (merge_qids_back.py) ----
  \* Times are in milliseconds.  Time passes while a request is in flight and
  \* during time.sleep; the clocks c_* hold the time since an instant.
  n_batches,     \* number of batches chunked() yields
  t_pc,          \* "top" | "post" | "done" | "raised"
  t_batch,       \* batches completed
  s_attempt,     \* the local `attempt` of http_post_sparql
  s_retry_lines, \* the attempt numbers printed in "[retry k/n]" lines by this call
  c_elapsed,     \* time.time() - batch_start
  c_since_first, \* time since the first request of the latest batch was sent
  c_since_last,  \* time since the latest request was sent
  req_gap,       \* first request of the previous batch -> first request of this batch
  last_gap,      \* last request of the previous batch -> first request of this batch
  prev_instant   \* the previous batch was answered at once, on its first attempt

clockVars == <<n_batches, t_pc, t_batch, s_attempt, s_retry_lines, c_elapsed, c_since_first, c_since_last,
               req_gap, last_gap, prev_instant>>

VARIABLES
  \* ---- run (download_bolivia_electricity_map.py) ----
  layer_list,    \* the local `layer_list` (layer names; the titles are LAYERS[layer])
  r_pc,          \* "loop" | "done" | "raised"
  r_i,           \* datasets the loop has handled
  merged,        \* the local `merged`
  successes,     \* the local `successes`
  failures,      \* the local `failures`
  r_log,         \* per dataset handled: what its fetch gave and which counters it incremented
  layer_files,   \* the layers whose GeoJSON file was written
  csv_file,      \* the transmission CSV as written, or NoFile
  merged_file    \* the merged GeoJSON as written, or NoFile

runVars == <<layer_list, r_pc, r_i, merged, successes, failures, r_log, layer_files,
             csv_file, merged_file>>

VARIABLES
  \* ---- the token at its two derivation sites (generate_qs_csv.py, merge_qids_back.py) ----
  in_cells,      \* INPUT_CSV: per row the text of its _feature_id and _coords_json cells
  qs_done,       \* generate_qs_csv.main has run
  qs_tokens,     \* per row, the token generate_qs_csv puts in the tag [EXT:<token>]
  mq_done,       \* merge_qids_back.main has computed its _ext_token column
  mq_tokens      \* per row, the _ext_token of merge_qids_back

tokenVars == <<in_cells, qs_done, qs_tokens, mq_done, mq_tokens>>

VARIABLES
  \* ---- records through add_metadata, _flatten_transmission_rows, _write_csv_strict ----
  rec_in,        \* the features of the collection as fetched
  rec_feats,     \* the features as they are now (add_metadata updates them in place)
  rec_pc,        \* "features" | "flat" | "written"
  md_calls,      \* number of add_metadata calls made on the collection
  md_raised,     \* the latest add_metadata call raised
  md_first,      \* the features as the first add_metadata call left them
  rec_flat,      \* the rows _flatten_transmission_rows returned
  rec_rows,      \* the same list of rows as _write_csv_strict left it
  rec_csv        \* the CSV file _write_csv_strict wrote, or NotWritten

recVars == <<rec_in, rec_feats, rec_pc, md_calls, md_raised, md_first, rec_flat, rec_rows, rec_csv>>

httpVars == <<max_retries, attempt, g_pc, sent, retry_lines, sleeps, last, result, raised>>

fetchVars == <<page_size, f_pc, start, attempts, features, calls, fetched, f_error>>

vars == <<httpVars, fetchVars, mergeVars, clockVars, runVars, tokenVars, recVars>>

----------------------------------------------------------------------------
(* Text helpers *)

LowerTok(t) ==
  CASE t = "<HTML"     -> "<html"
    [] t = "Error"     -> "error"
    [] t = "Timed Out" -> "timed out"
    [] t = "TIMEOUT"   -> "timeout"
    [] t = "TEXT/"     -> "text/"
    [] t = "HTML"      -> "html"
    [] t = "APPLICATION/" -> "application/"
    [] t = "JSON"      -> "json"
    [] OTHER           -> t

Lower(s) == [i \in DOMAIN s |-> LowerTok(s[i])]

Contains(s, lit) == \E i \in DOMAIN s : s[i] = lit

\* text[:4000]
Take4000(s) ==
  IF \E i \in DOMAIN s : s[i] = "PAD"
    THEN SubSeq(s, 1, (CHOOSE i \in DOMAIN s : s[i] = "PAD" /\ \A j \in 1..(i-1) : s[j] # "PAD") - 1)
    ELSE s

----------------------------------------------------------------------------
(* The remote end, as seen by one session.get call *)

MAX_RETRIES == 6

RetryStatuses == {429, 500, 502, 503, 504}

Statuses == RetryStatuses \cup {200, 204, 400, 404}

ContentTypes ==
  { <<"application/", "json">>, <<"text/", "html">>, <<"TEXT/", "HTML">>,
    <<"text/", "xml">>, <<>> }

Bodies ==
  { <<>>, <<"{json}">>,
    <<"<html", "error">>, <<"<html", "Error">>, <<"<html">>,
    <<"timeout">>, <<"Timed Out">>, <<"time out">>, <<"TIMEOUT">>,
    <<"PAD", "timeout">>, <<"PAD", "<html", "error">> }

\* requests exception classes raised by session.get itself, with their base classes
ExcBases(cls) ==
  CASE cls = "Timeout"          -> {"Timeout", "RequestException"}
    [] cls = "ConnectionError"  -> {"ConnectionError", "RequestException"}
    [] cls = "HTTPError"        -> {"HTTPError", "RequestException"}
    [] cls = "TooManyRedirects" -> {"TooManyRedirects", "RequestException"}
    [] OTHER                    -> {cls}

NetworkFailures == {"Timeout", "ConnectionError", "TooManyRedirects"}

\* An outcome of session.get: an exception (exc # "none") or a response.
Responses == [exc : {"none"}, status : Statuses, ctype : ContentTypes, body : Bodies]

Failures == [exc : NetworkFailures, status : {0}, ctype : {<<>>}, body : {<<>>}]

Outcomes == Responses \cup Failures

NoOutcome == [exc |-> "none", status |-> 0, ctype |-> <<>>, body |-> <<>>]

NoError == [cls |-> "none", msg |-> "", attempt |-> 0]

----------------------------------------------------------------------------
(* get_with_retries *)

_is_timeout_like_400(text) ==
  IF text = <<>> THEN FALSE
  ELSE LET t == Lower(text)
       IN  Contains(t, "timeout") \/ Contains(t, "time out") \/ Contains(t, "timed out")

\* resp.raise_for_status(): HTTPError for 4xx and 5xx, nothing otherwise
RaiseForStatusRaises(status) == status >= 400 /\ status < 600

TextPeek(o) ==
  LET ctype == Lower(o.ctype)
  IN  IF Contains(ctype, "text/") \/ Contains(ctype, "html") THEN Take4000(o.body) ELSE <<>>

\* TryBlock without the check for HTML error pages delivered with status 200
TryBlock_NoHtmlCheck(o) ==
  IF o.exc # "none" THEN [cls |-> o.exc, msg |-> "network"]
  ELSE IF o.status \in RetryStatuses THEN [cls |-> "HTTPError", msg |-> "Retryable status"]
  ELSE IF o.status = 400 /\ _is_timeout_like_400(TextPeek(o))
    THEN [cls |-> "HTTPError", msg |-> "400 with timeout-like body"]
  ELSE IF o.status # 200 /\ RaiseForStatusRaises(o.status)
    THEN [cls |-> "HTTPError", msg |-> "raise_for_status"]
  ELSE [cls |-> "none", msg |-> ""]

\* The body of the try block for one session.get outcome: the exception it
\* raises ([cls, msg]), or cls = "none" when it reaches `return resp`.
TryBlock(o) ==
  IF o.exc # "none" THEN [cls |-> o.exc, msg |-> "network"]
  ELSE IF o.status \in RetryStatuses THEN [cls |-> "HTTPError", msg |-> "Retryable status"]
  ELSE IF o.status = 400 /\ _is_timeout_like_400(TextPeek(o))
    THEN [cls |-> "HTTPError", msg |-> "400 with timeout-like body"]
  ELSE IF o.status # 200 /\ RaiseForStatusRaises(o.status)
    THEN [cls |-> "HTTPError", msg |-> "raise_for_status"]
  ELSE IF Contains(TextPeek(o), "<html") /\ Contains(TextPeek(o), "error")
    THEN [cls |-> "HTTPError", msg |-> "HTML error page with 200 status"]
  ELSE [cls |-> "none", msg |-> ""]

\* an except clause that names HTTPError only
ExceptClasses_HttpOnly == {"HTTPError"}

\* the classes named by the except clause
ExceptClasses == {"Timeout", "ConnectionError", "HTTPError", "RequestException"}

Caught(cls) == ExcBases(cls) \cap ExceptClasses # {}

\* the off-by-one test `attempt >= max_retries`
BudgetExhausted_Geq(a, m) == a >= m

\* `if attempt > max_retries: raise`
BudgetExhausted(a, m) == a > m

HttpInit ==
  /\ max_retries \in 0..MAX_RETRIES
  /\ attempt = 0
  /\ g_pc = "loop"
  /\ sent = 0
  /\ retry_lines = <<>>
  /\ sleeps = 0
  /\ last = NoOutcome
  /\ result = NoOutcome
  /\ raised = NoError

\* get_with_retries has not been entered
HttpIdle ==
  /\ max_retries = MAX_RETRIES
  /\ attempt = 0
  /\ g_pc = "idle"
  /\ sent = 0
  /\ retry_lines = <<>>
  /\ sleeps = 0
  /\ last = NoOutcome
  /\ result = NoOutcome
  /\ raised = NoError

----------------------------------------------------------------------------
(* fetch_wfs_geojson *)

\* largest page_size argument explored
MaxPageSize == 2

\* largest number of features a single-shot or export response carries
MaxShot == 2

\* `if attempts > 200`
PAGE_CAP == 200

SRC_PAGINATED == "WFS 2.0.0 paginated"

SRC_ONESHOT == "WFS 1.0.0 one-shot"

SRC_EXPORT == "GeoNode layer_export"

NoFetch == [source |-> "none", features |-> <<>>]

FetchContentTypes == { <<"application/", "json">>, <<"APPLICATION/", "JSON">>, <<"text/", "html">> }

\* What r.json() gives: an undecodable body, JSON that is not an object, an object
\* whose "features" is missing or null, or an object with n features.
JsonData(maxn) ==
  [kind : {"undecodable", "notobject", "nofeatures"}, n : {0}]
    \cup [kind : {"features"}, n : 0..maxn]

\* What one get_with_retries call gives its caller: an exception, or a response.
CallRaise == [raises |-> TRUE, ctype |-> <<>>, data |-> [kind |-> "undecodable", n |-> 0]]

CallOutcomes(maxn) ==
  {CallRaise} \cup [raises : {FALSE}, ctype : FetchContentTypes, data : JsonData(maxn)]

\* the n records a strategy's response carries, counted from `base`
Records(strategy, base, n) == [j \in 1..n |-> <<strategy, base + j>>]

\* `data.get("features") or []`
FeatureCount(data) == IF data.kind = "features" THEN data.n ELSE 0

\* a test that takes every decoded response as carrying records
HasRecords_Always(n) == TRUE

\* `if not page_feats` / `if feats` (lines 174, 201, 216)
HasRecords(n) == n > 0

\* the test `len(page_feats) <= page_size`
IsShortPage_Leq(n, size) == n <= size

\* `if len(page_feats) < page_size`
IsShortPage(n, size) == n < size

\* a cap test that lets one more page through
CapReached_Late(a) == a > PAGE_CAP + 1

\* line 182: if attempts > 200
CapReached(a) == a > PAGE_CAP

\* a one-shot result labelled with the paginated source
OneShotResult_Mislabelled(n) == [source |-> SRC_PAGINATED, features |-> Records("wfs1", 0, n)]

\* a one-shot result that keeps the pages collected before
OneShotResult_KeepsPages(n) ==
  [source |-> SRC_ONESHOT, features |-> features \o Records("wfs1", 0, n)]

\* lines 202-203
OneShotResult(n) == [source |-> SRC_ONESHOT, features |-> Records("wfs1", 0, n)]

FetchIdle ==
  /\ page_size = 0
  /\ f_pc = "idle"
  /\ start = 0
  /\ attempts = 0
  /\ features = <<>>
  /\ calls = <<>>
  /\ fetched = NoFetch
  /\ f_error = "none"

FetchInit ==
  /\ page_size \in 1..MaxPageSize
  /\ f_pc = "page"
  /\ start = 0
  /\ attempts = 0
  /\ features = <<>>
  /\ calls = <<>>
  /\ fetched = NoFetch
  /\ f_error = "none"

Logged(strategy, at, out, n) == [strategy |-> strategy, start |-> at, out |-> out, n |-> n]

\* One iteration of the pagination loop (lines 142-185).
FetchPage(o) ==
  /\ f_pc = "page"
  /\ IF o.raises
       THEN /\ calls' = Append(calls, Logged("wfs2", start, "raise", 0))
            /\ f_pc' = "oneshot"
            /\ UNCHANGED <<start, attempts, features, fetched, f_error>>
     ELSE IF ~Contains(Lower(o.ctype), "json")
       THEN /\ calls' = Append(calls, Logged("wfs2", start, "nonjson", 0))
            /\ f_pc' = "oneshot"
            /\ UNCHANGED <<start, attempts, features, fetched, f_error>>
     ELSE IF o.data.kind = "undecodable"
       THEN /\ calls' = Append(calls, Logged("wfs2", start, "badjson", 0))
            /\ f_pc' = "oneshot"
            /\ UNCHANGED <<start, attempts, features, fetched, f_error>>
     ELSE IF o.data.kind = "notobject"
       THEN \* data.get raises AttributeError outside any try block
            /\ calls' = Append(calls, Logged("wfs2", start, "notobject", 0))
            /\ f_pc' = "raised"
            /\ f_error' = "AttributeError"
            /\ UNCHANGED <<start, attempts, features, fetched>>
     ELSE LET n == FeatureCount(o.data)
              page_feats == Records("wfs2", start, n)
          IN  /\ calls' = Append(calls, Logged("wfs2", start, "ok", n))
              /\ IF ~HasRecords(n)
                   THEN /\ f_pc' = "oneshot"
                        /\ UNCHANGED <<start, attempts, features, fetched, f_error>>
                 ELSE /\ features' = features \o page_feats
                      /\ IF IsShortPage(n, page_size)
                           THEN /\ f_pc' = "returned"
                                /\ fetched' = [source |-> SRC_PAGINATED, features |-> features']
                                /\ UNCHANGED <<start, attempts, f_error>>
                         ELSE /\ start' = start + page_size
                              /\ attempts' = attempts + 1
                              /\ f_pc' = IF CapReached(attempts') THEN "oneshot" ELSE "page"
                              /\ UNCHANGED <<fetched, f_error>>
  /\ UNCHANGED page_size
  /\ UNCHANGED <<httpVars, mergeVars, clockVars, runVars, tokenVars, recVars>>

\* The WFS 1.0.0 one-shot fallback (lines 187-205).
FetchOneShot(o) ==
  /\ f_pc = "oneshot"
  /\ LET out == IF o.raises THEN "raise"
                ELSE IF o.data.kind = "undecodable" THEN "badjson"
                ELSE IF o.data.kind = "notobject" THEN "notobject"
                ELSE "ok"
         n == IF out = "ok" THEN FeatureCount(o.data) ELSE 0
     IN  /\ calls' = Append(calls, Logged("wfs1", 0, out, n))
         /\ IF out = "ok" /\ HasRecords(n)
              THEN /\ f_pc' = "returned"
                   /\ fetched' = OneShotResult(n)
            ELSE /\ f_pc' = "export"
                 /\ UNCHANGED fetched
  /\ UNCHANGED <<page_size, start, attempts, features, f_error>>
  /\ UNCHANGED <<httpVars, mergeVars, clockVars, runVars, tokenVars, recVars>>

\* The layer_export fallback and the final raise (lines 207-221).
FetchExport(o) ==
  /\ f_pc = "export"
  /\ LET out == IF o.raises THEN "raise"
                ELSE IF o.data.kind = "undecodable" THEN "badjson"
                ELSE IF o.data.kind = "notobject" THEN "notobject"
                ELSE "ok"
         n == IF out = "ok" THEN FeatureCount(o.data) ELSE 0
     IN  /\ calls' = Append(calls, Logged("export", 0, out, n))
         /\ IF out = "ok" /\ HasRecords(n)
              THEN /\ f_pc' = "returned"
                   /\ fetched' = [source |-> SRC_EXPORT, features |-> Records("export", 0, n)]
                   /\ UNCHANGED f_error
            ELSE /\ f_pc' = "raised"
                 /\ f_error' = "RuntimeError"
                 /\ UNCHANGED fetched
  /\ UNCHANGED <<page_size, start, attempts, features>>
  /\ UNCHANGED <<httpVars, mergeVars, clockVars, runVars, tokenVars, recVars>>

FetchNext ==
  \/ \E o \in CallOutcomes(page_size) : FetchPage(o)
  \/ \E o \in CallOutcomes(MaxShot) : FetchOneShot(o)
  \/ \E o \in CallOutcomes(MaxShot) : FetchExport(o)

----------------------------------------------------------------------------
(* Properties of fetch_wfs_geojson *)

\* the first k calls were full pages, requested at offsets 0, N, 2N, ...
AllFullPages(k) ==
  \A i \in 1..k : calls[i] = Logged("wfs2", (i - 1) * page_size, "ok", page_size)

\* the calls so far are m full pages followed by one valid page of k records
FullPagesThenShort(k) ==
  /\ calls # <<>>
  /\ AllFullPages(Len(calls) - 1)
  /\ calls[Len(calls)] = Logged("wfs2", (Len(calls) - 1) * page_size, "ok", k)

PaginatedSuccess(total) ==
  /\ f_pc = "returned"
  /\ fetched = [source |-> SRC_PAGINATED, features |-> Records("wfs2", 0, total)]

Rank(c) ==
  CASE c.strategy = "wfs2"   -> 1
    [] c.strategy = "wfs1"   -> 2
    [] c.strategy = "export" -> 3

SourceOf(strategy) ==
  CASE strategy = "wfs2"   -> SRC_PAGINATED
    [] strategy = "wfs1"   -> SRC_ONESHOT
    [] strategy = "export" -> SRC_EXPORT

\* call i ended the paginated strategy without success: an error, an empty page,
\* or the page that reached the cap
PaginatedFailedAt(i) ==
  /\ calls[i].strategy = "wfs2"
  /\ \/ calls[i].out # "ok"
     \/ calls[i].n = 0
     \/ calls[i].n = page_size /\ i = PAGE_CAP + 1

FailedOrEmpty(c) == c.out # "ok" \/ c.n = 0

\* the records obtained by the strategy of the last call
RecordsOfLastStrategy ==
  LET c == calls[Len(calls)]
  IN  IF c.strategy = "wfs2" THEN Records("wfs2", 0, c.start + c.n)
      ELSE Records(c.strategy, 0, c.n)

\* C2: the strategies are tried in strict order.  The single-shot request is made
\* (once) only directly after the paginated strategy failed, the export request
\* (once) only directly after the single-shot request failed or gave zero
\* records.  A single-shot answer of M > 0 records is returned as exactly those
\* records with the single-shot source, an export answer of K > 0 records as
\* exactly those with the export source; a run that returns reports exactly one
\* source, the one of the strategy whose records it returns.
C2_FallbackOrder ==
  /\ \A i \in 1..(Len(calls) - 1) :
        /\ Rank(calls[i]) <= Rank(calls[i + 1])
        /\ Rank(calls[i]) = Rank(calls[i + 1]) => calls[i].strategy = "wfs2"
  /\ \A i \in 1..Len(calls) :
        /\ calls[i].strategy = "wfs1" => (i > 1 /\ PaginatedFailedAt(i - 1))
        /\ calls[i].strategy = "export" =>
              (i > 2 /\ calls[i - 1].strategy = "wfs1" /\ FailedOrEmpty(calls[i - 1]))
  /\ (calls # <<>> /\ calls[Len(calls)].strategy \in {"wfs1", "export"}
         /\ ~FailedOrEmpty(calls[Len(calls)])) => f_pc = "returned"
  /\ f_pc = "returned" =>
        /\ calls # <<>>
        /\ ~FailedOrEmpty(calls[Len(calls)])
        /\ fetched.source = SourceOf(calls[Len(calls)].strategy)
        /\ fetched.features = RecordsOfLastStrategy
  /\ f_pc # "returned" => fetched = NoFetch

C2_Witness ==
  /\ f_pc = "returned"
  /\ fetched.source = SRC_EXPORT
  /\ Len(fetched.features) = 2
  /\ Len(calls) = 3
  /\ calls[1].out = "raise"
  /\ calls[2].out = "raise"

\* the ways a page request fails validation: get_with_retries raised, the
\* content type is not JSON, the body cannot be decoded
PageInvalid(c) == c.strategy = "wfs2" /\ c.out \in {"raise", "nonjson", "badjson"}

\* C13: a page request that fails validation is the last paginated request (the
\* page is not requested again), the next request is the single-shot one, and
\* the collection finally returned holds no record of the pages collected
\* before: it consists only of records of the strategy that is reported.
C13_PaginatedAbort ==
  /\ \A i \in DOMAIN calls :
        PageInvalid(calls[i]) =>
          /\ \A j \in DOMAIN calls : j > i => calls[j].strategy # "wfs2"
          /\ IF i = Len(calls) THEN f_pc = "oneshot" ELSE calls[i + 1].strategy = "wfs1"
          /\ \A k \in DOMAIN fetched.features : fetched.features[k][1] # "wfs2"
  /\ f_pc = "returned" =>
        \A k \in DOMAIN fetched.features :
           SourceOf(fetched.features[k][1]) = fetched.source

C13_Witness ==
  /\ f_pc = "returned"
  /\ Len(calls) = 3
  /\ calls[1] = Logged("wfs2", 0, "ok", page_size)
  /\ calls[2] = Logged("wfs2", page_size, "badjson", 0)
  /\ calls[3] = Logged("wfs1", 0, "ok", 2)
  /\ features # <<>>
  /\ fetched = [source |-> SRC_ONESHOT, features |-> Records("wfs1", 0, 2)]

PagedCalls == {i \in DOMAIN calls : calls[i].strategy = "wfs2"}

FetchEnded == f_pc \in {"returned", "raised"}

\* what holds in every state of a fetch whose endpoint keeps answering full pages
PageCapHolds ==
  /\ Cardinality(PagedCalls) <= PAGE_CAP + 1
  /\ Len(calls) <= PAGE_CAP + 3
  /\ (Len(calls) <= PAGE_CAP /\ AllFullPages(Len(calls))) => f_pc = "page"
  /\ (Len(calls) >= PAGE_CAP + 1 /\ AllFullPages(PAGE_CAP + 1)) =>
        /\ f_pc # "page"
        /\ fetched.source # SRC_PAGINATED
        /\ \A k \in DOMAIN fetched.features : fetched.features[k][1] # "wfs2"
        /\ IF Len(calls) = PAGE_CAP + 1 THEN f_pc = "oneshot"
           ELSE calls[PAGE_CAP + 2].strategy = "wfs1"

\* C14: with a full page on every request the paginated strategy makes at most
\* 201 page requests; reaching the cap is a failure of the strategy: the pages
\* collected are not returned and the single-shot request follows.  Every fetch
\* makes a bounded number of HTTP calls and ends when every call ends.
C14_PageCap == []PageCapHolds /\ <>FetchEnded

C14_Witness ==
  /\ Len(calls) = PAGE_CAP + 2
  /\ AllFullPages(PAGE_CAP + 1)
  /\ Len(features) = (PAGE_CAP + 1) * page_size
  /\ f_pc = "returned"
  /\ fetched = [source |-> SRC_ONESHOT, features |-> Records("wfs1", 0, 1)]

\* no call of any strategy obtained a record
NoRecordObtained == \A i \in DOMAIN calls : calls[i].n = 0

\* C26: whenever fetch_wfs_geojson has returned, by whichever strategy, the
\* collection returned holds at least one record; when it ended and no call of
\* any strategy obtained a record, it ended by raising, not by returning.
C26_NeverEmptySuccess ==
  /\ f_pc = "returned" =>
        /\ fetched.source \in {SRC_PAGINATED, SRC_ONESHOT, SRC_EXPORT}
        /\ Len(fetched.features) >= 1
        /\ f_error = "none"
  /\ (f_pc \in {"returned", "raised"} /\ NoRecordObtained) =>
        /\ f_pc = "raised"
        /\ f_error \in {"RuntimeError", "AttributeError"}
        /\ fetched = NoFetch
  /\ f_pc # "returned" => fetched = NoFetch

\* the first two strategies answered with no record and the export returned some
C26_Witness ==
  /\ f_pc = "returned"
  /\ fetched.source = SRC_EXPORT
  /\ Len(fetched.features) >= 1
  /\ Len(calls) = 3
  /\ calls[1].out = "ok" /\ calls[1].n = 0
  /\ calls[2].out = "ok" /\ calls[2].n = 0

----------------------------------------------------------------------------
(* merge_qids_back.py: reconciliation *)

\* chr(34)
DQ == "\""

\* code points of the characters codes are written with
CharRank(ch) ==
  CASE ch = " " -> 32
    [] ch = DQ  -> 34
    [] ch = "A" -> 65
    [] ch = "B" -> 66
    [] ch = "C" -> 67
    [] ch = "D" -> 68

\* str < str
RECURSIVE StrLess(_, _)
StrLess(a, b) ==
  IF a = <<>> THEN b # <<>>
  ELSE IF b = <<>> THEN FALSE
  ELSE IF Head(a) = Head(b) THEN StrLess(Tail(a), Tail(b))
  ELSE CharRank(Head(a)) < CharRank(Head(b))

\* sorted(set)
RECURSIVE Sorted(_)
Sorted(S) ==
  IF S = {} THEN <<>>
  ELSE LET m == CHOOSE x \in S : \A y \in S \ {x} : StrLess(x, y)
       IN  <<m>> \o Sorted(S \ {m})

RECURSIVE LStrip(_)
LStrip(s) == IF s # <<>> /\ Head(s) = " " THEN LStrip(Tail(s)) ELSE s

RECURSIVE RStrip(_)
RStrip(s) == IF s # <<>> /\ s[Len(s)] = " " THEN RStrip(SubSeq(s, 1, Len(s) - 1)) ELSE s

\* str.strip()
Strip(s) == RStrip(LStrip(s))

\* c.replace(chr(34), "")
DelQuotes(s) == SelectSeq(s, LAMBDA ch : ch # DQ)

\* a token basis that takes the whole geometry text
Take256_Whole(s) == s

\* coords_json[:256]; the token "PAD256" stands for the filler that brings the
\* text before it to 256 characters
Take256(s) ==
  IF \E i \in DOMAIN s : s[i] = "PAD256"
    THEN SubSeq(s, 1, CHOOSE i \in DOMAIN s : s[i] = "PAD256" /\ \A j \in 1..(i-1) : s[j] # "PAD256")
    ELSE s

\* sha1(fid + "|" + coords_json[:256]).hexdigest()[:12]; the digest is
\* represented by the text it is taken of
ext_token(fid, coords_json) == [fid |-> fid, geom |-> Take256(coords_json)]

ENTITY_PREFIX == "http://www.wikidata.org/entity"

\* uri.rsplit("/", 1)[-1]
qid_from_uri(uri) == uri[2]

\* the ceiling of len / n
CeilDiv(len, n) == (len + n - 1) \div n

Min(a, b) == IF a < b THEN a ELSE b

\* list(chunked(seq, n))
chunked(seq, n) ==
  [k \in 1..CeilDiv(Len(seq), n) |-> SubSeq(seq, (k - 1) * n + 1, Min(k * n, Len(seq)))]

\* the VALUES of build_sparql_for_codigos(codes)
SparqlValues(codes) ==
  LET kept == SelectSeq(codes, LAMBDA c : c # <<>>)
  IN  [i \in DOMAIN kept |-> DelQuotes(kept[i])]

\* BATCH_SIZE of merge_qids_back.py (100 there, line 34), scaled down
BATCH_SIZE == 2

\* largest number of input rows
MaxRows == 2

\* largest number of items the remote holds for one code
MaxCands == 2

NoneQid == [code |-> <<>>, idx |-> -1]

EmptyQid == [code |-> <<>>, idx |-> 0]

\* the item the remote holds as the idx-th one with wdt:P528 = code
ItemUri(code, idx) == <<ENTITY_PREFIX, [code |-> code, idx |-> idx]>>

\* The bindings the remote answers for one VALUES entry, then for a whole query:
\* one binding per (entry, item with that code), in VALUES order.
BindingsFor(v) ==
  IF v \in DOMAIN remote
    THEN [j \in 1..Len(remote[v]) |-> [code |-> v, item |-> ItemUri(v, j), desc |-> remote[v][j]]]
    ELSE <<>>

RECURSIVE Bindings(_)
Bindings(vals) ==
  IF vals = <<>> THEN <<>> ELSE BindingsFor(Head(vals)) \o Bindings(Tail(vals))

Reverse(sq) == [i \in DOMAIN sq |-> sq[Len(sq) + 1 - i]]

\* a lookup that falls back on the hits of some other code
Hits_AnyCode(m, code) ==
  IF code \in DOMAIN m THEN m[code]
  ELSE IF DOMAIN m # {} THEN m[CHOOSE c \in DOMAIN m : TRUE] ELSE <<>>

\* code_to_hits.get(code, [])
Hits(m, code) == IF code \in DOMAIN m THEN m[code] ELSE <<>>

\* code_to_hits.setdefault(code, []).append(hit)
AddHit(m, code, hit) ==
  [c \in DOMAIN m \cup {code} |-> IF c = code THEN Append(Hits(m, code), hit) ELSE m[c]]

\* lines 175-184: the loop over the bindings of one response
RECURSIVE AddBindings(_, _)
AddBindings(m, bs) ==
  IF bs = <<>> THEN m
  ELSE LET b == Head(bs)
       IN  IF b.code # <<>> /\ b.item # <<>>
             THEN AddBindings(AddHit(m, b.code, [qid |-> qid_from_uri(b.item), desc |-> b.desc]), Tail(bs))
             ELSE AddBindings(m, Tail(bs))

CountBindings(bs) == Len(SelectSeq(bs, LAMBDA b : b.code # <<>> /\ b.item # <<>>))

\* f"[EXT:{token}]" in desc: a description is the set of [EXT:...] tags it carries
TagIn(token, desc) == token \in desc

\* a tie-break that takes the first tagged candidate whenever there is one
Choose_FirstTagged(hits, token) ==
  IF hits = <<>> THEN [qid |-> NoneQid, count |-> "unresolved"]
  ELSE IF Len(hits) = 1 THEN [qid |-> hits[1].qid, count |-> "none"]
  ELSE LET with_ext == SelectSeq(hits, LAMBDA h : TagIn(token, h.desc))
       IN  IF Len(with_ext) >= 1 THEN [qid |-> with_ext[1].qid, count |-> "none"]
           ELSE [qid |-> NoneQid, count |-> "ambiguous"]

\* a resolver that also asks a lone candidate for the tag
Choose_TagAlways(hits, token) ==
  IF hits = <<>> THEN [qid |-> NoneQid, count |-> "unresolved"]
  ELSE LET with_ext == SelectSeq(hits, LAMBDA h : TagIn(token, h.desc))
       IN  IF Len(with_ext) = 1 THEN [qid |-> with_ext[1].qid, count |-> "none"]
           ELSE [qid |-> NoneQid, count |-> "ambiguous"]

\* a resolver that falls back on the candidate the remote happened to return first
Choose_FirstReturned(hits, token) ==
  IF hits = <<>> THEN [qid |-> NoneQid, count |-> "unresolved"]
  ELSE IF Len(hits) = 1 THEN [qid |-> hits[1].qid, count |-> "none"]
  ELSE LET with_ext == SelectSeq(hits, LAMBDA h : TagIn(token, h.desc))
       IN  IF Len(with_ext) = 1 THEN [qid |-> with_ext[1].qid, count |-> "none"]
           ELSE [qid |-> hits[1].qid, count |-> "ambiguous"]

\* a resolver that leaves the rows it cannot decide out of the counters
Choose_Uncounted(hits, token) ==
  IF hits = <<>> THEN [qid |-> NoneQid, count |-> "unresolved"]
  ELSE IF Len(hits) = 1 THEN [qid |-> hits[1].qid, count |-> "none"]
  ELSE LET with_ext == SelectSeq(hits, LAMBDA h : TagIn(token, h.desc))
       IN  IF Len(with_ext) = 1 THEN [qid |-> with_ext[1].qid, count |-> "none"]
           ELSE [qid |-> NoneQid, count |-> "none"]

\* lines 202-217: the identifier chosen for one row and the counter it bumps
Choose(hits, token) ==
  IF hits = <<>> THEN [qid |-> NoneQid, count |-> "unresolved"]
  ELSE IF Len(hits) = 1 THEN [qid |-> hits[1].qid, count |-> "none"]
  ELSE LET with_ext == SelectSeq(hits, LAMBDA h : TagIn(token, h.desc))
       IN  IF Len(with_ext) = 1 THEN [qid |-> with_ext[1].qid, count |-> "none"]
           ELSE [qid |-> NoneQid, count |-> "ambiguous"]

NotWritten == [written |-> FALSE]

\* the columns of INPUT_CSV that main() requires (line 146), in file order
InputCols == <<"_feature_id", "_geometry_type", "_coords_json", "Codigo">>

JsonWhitespace == {" ", "\n", "\r"}

JsonTokens == {"[[", "]]", "[", "]", ",", "1", "2"} \cup JsonWhitespace

\* json.loads(s): it raises on text that is not JSON, else gives the value,
\* which does not depend on the whitespace between the tokens
JsonLoads(s) ==
  IF s # <<>> /\ \A i \in DOMAIN s : s[i] \in JsonTokens
    THEN [raises |-> FALSE, value |-> SelectSeq(s, LAMBDA t : t \notin JsonWhitespace)]
  ELSE [raises |-> TRUE, value |-> <<>>]

\* a builder that parses the Excel-safe column
GeometrySource_Escaped(row) == row._coords_json

\* line 111: coords_src = row.get("_coords_json_orig", "")
GeometrySource(row) == row._coords_json_orig

\* lines 109-134 for the row of index idx: the feature built, or nothing
GeoFeature(row, idx) ==
  LET gtype == row._geometry_type
      coords_src == GeometrySource(row)
      parsed == JsonLoads(coords_src)
  IN  IF gtype = "" \/ coords_src = <<>> \/ parsed.raises
        THEN <<>>
      ELSE << [id         |-> IF row._feature_id \notin {"", "nan"}
                                THEN [str |-> row._feature_id] ELSE [int |-> idx + 1],
               properties |-> [c \in DOMAIN row \ {"_coords_json_orig"} |-> row[c]],
               geometry   |-> [type |-> gtype, coordinates |-> parsed.value]] >>

\* dataframe_to_geojson(df): the features, in row order
RECURSIVE GeoFeatures(_, _)
GeoFeatures(frame, k) ==
  IF k > Len(frame) THEN <<>> ELSE GeoFeature(frame[k], k - 1) \o GeoFeatures(frame, k + 1)

dataframe_to_geojson(frame) == GeoFeatures(frame, 1)

\* lines 233-240: the columns of the frame with wikidata moved behind Codigo
OutputCols ==
  <<"_feature_id", "_geometry_type", "_coords_json", "Codigo", "wikidata",
    "_coords_json_orig", "_ext_token">>

MergeIdle ==
  /\ rows_in = <<>>
  /\ remote = <<>>
  /\ df = <<>>
  /\ unique_codes = <<>>
  /\ m_pc = "idle"
  /\ batch_no = 0
  /\ queries = <<>>
  /\ responses = <<>>
  /\ code_to_hits = <<>>
  /\ total_candidates = 0
  /\ row_i = 0
  /\ chosen_qids = <<>>
  /\ unresolved = 0
  /\ ambiguous = 0
  /\ out_csv = NotWritten
  /\ out_geojson = NotWritten

\* main() is entered with the input rows and the remote snapshot given
MergeStart(rows, snapshot) ==
  /\ rows_in = rows
  /\ remote = snapshot
  /\ df = <<>>
  /\ unique_codes = <<>>
  /\ m_pc = "load"
  /\ batch_no = 0
  /\ queries = <<>>
  /\ responses = <<>>
  /\ code_to_hits = <<>>
  /\ total_candidates = 0
  /\ row_i = 0
  /\ chosen_qids = <<>>
  /\ unresolved = 0
  /\ ambiguous = 0
  /\ out_csv = NotWritten
  /\ out_geojson = NotWritten

\* lines 144-164: read, normalize strings, keep the original coordinates, compute
\* the tokens, collect the sorted distinct non-empty codes
Load ==
  /\ m_pc = "load"
  /\ df' = [i \in DOMAIN rows_in |->
              [Codigo            |-> Strip(rows_in[i].Codigo),
               _feature_id       |-> rows_in[i]._feature_id,
               _coords_json      |-> rows_in[i]._coords_json,
               _geometry_type    |-> rows_in[i]._geometry_type,
               _coords_json_orig |-> rows_in[i]._coords_json,
               _ext_token        |-> ext_token(rows_in[i]._feature_id, rows_in[i]._coords_json)]]
  /\ unique_codes' = Sorted({df'[i].Codigo : i \in DOMAIN df'} \ {<<>>})
  /\ m_pc' = IF unique_codes' = <<>> THEN "resolve" ELSE "batch"
  /\ UNCHANGED <<rows_in, remote, batch_no, queries, responses, code_to_hits,
                 total_candidates, row_i, chosen_qids, unresolved, ambiguous,
                 out_csv, out_geojson>>
  /\ UNCHANGED <<httpVars, fetchVars, clockVars, runVars, tokenVars, recVars>>

\* lines 169-191 for one batch; http_post_sparql either returns the bindings or
\* raises its terminal failure, which nothing in main() catches.  The query has
\* no ORDER BY: the remote may answer the bindings in either order.
QueryBatch(ok, rev) ==
  /\ m_pc = "batch"
  /\ LET batches == chunked(unique_codes, BATCH_SIZE)
         batch == batches[batch_no + 1]
         vals == SparqlValues(batch)
         bs == IF rev THEN Reverse(Bindings(vals)) ELSE Bindings(vals)
     IN  /\ batch_no' = batch_no + 1
         /\ queries' = Append(queries, [batch |-> batch, values |-> vals])
         /\ IF ok
              THEN /\ responses' = Append(responses, bs)
                   /\ code_to_hits' = AddBindings(code_to_hits, bs)
                   /\ total_candidates' = total_candidates + CountBindings(bs)
                   /\ m_pc' = IF batch_no' = Len(batches) THEN "resolve" ELSE "batch"
            ELSE /\ m_pc' = "raised"
                 /\ UNCHANGED <<responses, code_to_hits, total_candidates>>
  /\ UNCHANGED <<rows_in, remote, df, unique_codes, row_i, chosen_qids, unresolved, ambiguous,
                 out_csv, out_geojson>>
  /\ UNCHANGED <<httpVars, fetchVars, clockVars, runVars, tokenVars, recVars>>

\* lines 197-217 for one row
ResolveRow ==
  /\ m_pc = "resolve"
  /\ row_i < Len(df)
  /\ LET row == df[row_i + 1]
         c == Choose(Hits(code_to_hits, row.Codigo), row._ext_token)
     IN  /\ chosen_qids' = Append(chosen_qids, c.qid)
         /\ unresolved' = IF c.count = "unresolved" THEN unresolved + 1 ELSE unresolved
         /\ ambiguous' = IF c.count = "ambiguous" THEN ambiguous + 1 ELSE ambiguous
  /\ row_i' = row_i + 1
  /\ UNCHANGED <<rows_in, remote, df, unique_codes, m_pc, batch_no, queries, responses,
                 code_to_hits, total_candidates, out_csv, out_geojson>>
  /\ UNCHANGED <<httpVars, fetchVars, clockVars, runVars, tokenVars, recVars>>

\* "\n" -> "\\n", "\r" -> "", "," -> low-9 comma (lines 224-230)
ExcelSafeTok(t) ==
  CASE t = "\n" -> <<"\\n">>
    [] t = "\r" -> <<>>
    [] t = ","  -> <<"low9">>
    [] OTHER    -> <<t>>

RECURSIVE ExcelSafe(_)
ExcelSafe(s) == IF s = <<>> THEN <<>> ELSE ExcelSafeTok(Head(s)) \o ExcelSafe(Tail(s))

\* lines 219-251: the wikidata column, the Excel-safe coordinates, the outputs
Finish ==
  /\ m_pc = "resolve"
  /\ row_i = Len(df)
  /\ df' = [i \in DOMAIN df |->
              [Codigo            |-> df[i].Codigo,
               _feature_id       |-> df[i]._feature_id,
               _coords_json      |-> ExcelSafe(df[i]._coords_json),
               _geometry_type    |-> df[i]._geometry_type,
               _coords_json_orig |-> df[i]._coords_json_orig,
               _ext_token        |-> df[i]._ext_token,
               wikidata          |-> IF chosen_qids[i] # NoneQid THEN chosen_qids[i] ELSE EmptyQid]]
  /\ out_csv' = [written |-> TRUE, header |-> OutputCols, rows |-> df']
  /\ out_geojson' = [written |-> TRUE, features |-> dataframe_to_geojson(df')]
  /\ m_pc' = "done"
  /\ UNCHANGED <<rows_in, remote, unique_codes, batch_no, queries, responses, code_to_hits,
                 total_candidates, row_i, chosen_qids, unresolved, ambiguous>>
  /\ UNCHANGED <<httpVars, fetchVars, clockVars, runVars, tokenVars, recVars>>

MergeNext ==
  \/ Load
  \/ \E ok \in BOOLEAN, rev \in BOOLEAN : QueryBatch(ok, rev)
  \/ ResolveRow
  \/ Finish

\* Inputs of the resolution runs
Fids == {"1", "2"}

CoordsA == <<"[[", "1", ",", "2", "]]">>

MergeCodes == { <<>>, <<"A">>, <<" ", "A">>, <<"A", DQ>>, <<"B">> }

MergeRows ==
  [Codigo : MergeCodes, _feature_id : Fids, _coords_json : {CoordsA},
   _geometry_type : {"MultiLineString"}]

SeqsUpTo(S, n) == UNION {[1..k -> S] : k \in 0..n}

Tokens == {ext_token(f, CoordsA) : f \in Fids}

\* descriptions: without a tag, or tagged with one token
Descs == {{}} \cup {{t} : t \in Tokens}

Snapshots ==
  {[c \in {<<"A">>, <<"B">>} |-> IF c = <<"A">> THEN a ELSE b] :
     a \in SeqsUpTo(Descs, MaxCands), b \in SeqsUpTo({{}}, 1)}

----------------------------------------------------------------------------
(* Properties of the reconciliation *)

RECURSIVE Flatten(_)
Flatten(ss) == IF ss = <<>> THEN <<>> ELSE Head(ss) \o Flatten(Tail(ss))

\* the candidates the remote query service returned for business key k
ReturnedFor(k) == SelectSeq(Flatten(responses), LAMBDA b : b.code = k)

\* the candidates of row i, and those whose description carries the tag of the
\* row's own token (recomputed from the input row)
CandidatesOfRow(i) == ReturnedFor(Strip(rows_in[i].Codigo))

OwnToken(i) == ext_token(rows_in[i]._feature_id, rows_in[i]._coords_json)

TaggedOfRow(i) == SelectSeq(CandidatesOfRow(i), LAMBDA b : OwnToken(i) \in b.desc)

\* the identifier row i ends with: in chosen_qids, and in the wikidata column
IdentifierIs(i, qid) ==
  /\ chosen_qids[i] = qid
  /\ m_pc = "done" => df[i].wikidata = IF qid = NoneQid THEN EmptyQid ELSE qid

\* C7: a resolved row whose business key has two or more candidates has the
\* identifier of a candidate iff exactly one candidate's description carries
\* [EXT:<the row's own token>], and then that candidate's; with zero or several
\* tagged candidates its identifier is empty.  The ambiguous counter counts
\* exactly the rows of the second kind (one increment each, the unresolved
\* counter is not theirs), and no exception leaves the resolve loop.
C7_TieBreak ==
  /\ \A i \in 1..row_i :
        Len(CandidatesOfRow(i)) >= 2 =>
          IF Len(TaggedOfRow(i)) = 1
            THEN IdentifierIs(i, qid_from_uri(TaggedOfRow(i)[1].item))
            ELSE IdentifierIs(i, NoneQid)
  /\ ambiguous = Cardinality({i \in 1..row_i :
                                Len(CandidatesOfRow(i)) >= 2 /\ Len(TaggedOfRow(i)) # 1})
  /\ m_pc = "raised" => row_i = 0

C7_Witness ==
  /\ m_pc = "done"
  /\ ambiguous = 1
  /\ \E i \in 1..row_i :
        /\ Len(CandidatesOfRow(i)) = 2
        /\ Len(TaggedOfRow(i)) = 1
        /\ df[i].wikidata = qid_from_uri(TaggedOfRow(i)[1].item)
        /\ df[i].wikidata # qid_from_uri(CandidatesOfRow(i)[1].item)
  /\ \E i \in 1..row_i :
        /\ Len(CandidatesOfRow(i)) = 2
        /\ Len(TaggedOfRow(i)) = 0
        /\ df[i].wikidata = EmptyQid

\* C8: a resolved row whose business key has no candidates (every row with an
\* empty business key is one) has an empty identifier, and the unresolved counter
\* counts exactly these rows; a row whose business key has exactly one candidate
\* has that candidate's identifier whatever the description and the token, and
\* is counted by neither counter.
C8_ZeroOrOneCandidate ==
  /\ \A i \in 1..row_i :
        /\ Strip(rows_in[i].Codigo) = <<>> => Len(CandidatesOfRow(i)) = 0
        /\ Len(CandidatesOfRow(i)) = 0 => IdentifierIs(i, NoneQid)
        /\ Len(CandidatesOfRow(i)) = 1 =>
              IdentifierIs(i, qid_from_uri(CandidatesOfRow(i)[1].item))
  /\ unresolved = Cardinality({i \in 1..row_i : Len(CandidatesOfRow(i)) = 0})
  /\ unresolved + ambiguous
       = Cardinality({i \in 1..row_i : Len(CandidatesOfRow(i)) # 1 /\ chosen_qids[i] = NoneQid})
  /\ \A i \in 1..row_i : Len(CandidatesOfRow(i)) = 1 => chosen_qids[i] # NoneQid

C8_Witness ==
  /\ m_pc = "done"
  /\ unresolved = 1
  /\ ambiguous = 0
  /\ \E i \in 1..row_i :
        /\ Strip(rows_in[i].Codigo) = <<>>
        /\ df[i].wikidata = EmptyQid
  /\ \E i \in 1..row_i :
        /\ Len(CandidatesOfRow(i)) = 1
        /\ Len(TaggedOfRow(i)) = 0
        /\ df[i].wikidata = qid_from_uri(CandidatesOfRow(i)[1].item)

\* the distinct non-empty business-key values of the rows
RowKeys == {Strip(rows_in[i].Codigo) : i \in DOMAIN rows_in} \ {<<>>}

\* the keys the lookup queries name
KeysLookedUp ==
  UNION {{queries[q].values[j] : j \in DOMAIN queries[q].values} : q \in DOMAIN queries}

\* the batches are consecutive slices of the sorted key list, each of 1 to
\* BATCH_SIZE keys, every key in exactly one of them, one query per batch:
\* ceil(n / BATCH_SIZE) queries when the batch loop has finished
BatchPartition ==
  /\ \A q \in DOMAIN queries :
        /\ Len(queries[q].batch) >= 1
        /\ Len(queries[q].batch) <= BATCH_SIZE
        /\ queries[q].batch
             = SubSeq(Sorted(RowKeys), (q - 1) * BATCH_SIZE + 1,
                      (q - 1) * BATCH_SIZE + Len(queries[q].batch))
        /\ q < Len(queries) => Len(queries[q].batch) = BATCH_SIZE
  /\ m_pc \in {"resolve", "done"} =>
        /\ Len(queries) = CeilDiv(Cardinality(RowKeys), BATCH_SIZE)
        /\ Flatten([q \in DOMAIN queries |-> queries[q].batch]) = Sorted(RowKeys)
        /\ \A k \in RowKeys :
              Cardinality({q \in DOMAIN queries :
                             \E j \in DOMAIN queries[q].batch : queries[q].batch[j] = k}) = 1

\* C10 (as claimed): once the batch loop has finished, the keys looked up are
\* exactly the distinct non-empty business-key values of the rows, in batches
\* that are consecutive slices of the sorted key list with 1 to BATCH_SIZE keys
\* each, every key in exactly one batch, one query per batch.
C10_AsClaimed ==
  /\ BatchPartition
  /\ m_pc \in {"resolve", "done"} => KeysLookedUp = RowKeys

\* the rows whose geometry the GeoJSON builder can rebuild from the input
ParseableRows ==
  {i \in DOMAIN rows_in :
     rows_in[i]._geometry_type # "" /\ ~JsonLoads(rows_in[i]._coords_json).raises}

\* C16: every row's token is computed from _coords_json as read from the input;
\* while the rows are resolved the column is still as read, the Excel-safe
\* substitution is applied only after all rows have been resolved and changes
\* no token and no resolved identifier; the geometry of the GeoJSON output is
\* parsed from the text as read.
C16_TokenBeforeEscaping ==
  /\ \A i \in DOMAIN df :
        /\ df[i]._ext_token = OwnToken(i)
        /\ df[i]._coords_json_orig = rows_in[i]._coords_json
  /\ m_pc \in {"batch", "resolve", "raised"} =>
        \A i \in DOMAIN df : df[i]._coords_json = rows_in[i]._coords_json
  /\ m_pc = "done" =>
        /\ row_i = Len(rows_in)
        /\ \A i \in DOMAIN df :
              /\ df[i]._coords_json = ExcelSafe(rows_in[i]._coords_json)
              /\ df[i].wikidata = IF chosen_qids[i] = NoneQid THEN EmptyQid ELSE chosen_qids[i]
              /\ chosen_qids[i] = Choose(Hits(code_to_hits, df[i].Codigo), OwnToken(i)).qid
        /\ Len(out_geojson.features) = Cardinality(ParseableRows)
        /\ \A i \in ParseableRows :
              \E k \in DOMAIN out_geojson.features :
                 /\ out_geojson.features[k].properties._feature_id = rows_in[i]._feature_id
                 /\ out_geojson.features[k].properties._ext_token = OwnToken(i)
                 /\ out_geojson.features[k].geometry.coordinates
                      = JsonLoads(rows_in[i]._coords_json).value

C16_Witness ==
  /\ m_pc = "done"
  /\ \E i \in DOMAIN df :
        /\ df[i]._coords_json # rows_in[i]._coords_json
        /\ JsonLoads(df[i]._coords_json).raises
        /\ Len(CandidatesOfRow(i)) = 2
        /\ Len(TaggedOfRow(i)) = 1
        /\ df[i].wikidata = qid_from_uri(TaggedOfRow(i)[1].item)
        /\ out_geojson.features[i].geometry.coordinates = <<"[[", "1", ",", "2", "]]">>

SetOf(sq) == {sq[i] : i \in DOMAIN sq}

\* C17 (as claimed): the rows written out have the fields of the rows read and
\* exactly one more, the resolved identifier, and every field read has its
\* value unchanged.
C17_ReconciliationFrame ==
  m_pc = "done" =>
    /\ SetOf(out_csv.header) = SetOf(InputCols) \cup {"wikidata"}
    /\ Len(out_csv.rows) = Len(rows_in)
    /\ \A i \in DOMAIN rows_in : \A c \in SetOf(InputCols) : out_csv.rows[i][c] = rows_in[i][c]

\* What a run must produce, written from the inputs alone: the rows as a
\* collection (no positions) and the remote snapshot as a collection of items
\* (no answer order).

\* the batch queries issued for the sorted distinct non-empty keys
QueriesFor(keys) ==
  LET batches == chunked(Sorted(keys), BATCH_SIZE)
  IN  [q \in DOMAIN batches |-> [batch |-> batches[q], values |-> SparqlValues(batches[q])]]

\* how many VALUES entries of all the queries are the value k
Lookups(k) == Cardinality({c \in RowKeys : DelQuotes(c) = k})

ItemsOf(k) == IF k \in DOMAIN remote THEN 1..Len(remote[k]) ELSE {}

\* the candidates the snapshot holds for the keys S, one per lookup and item
RECURSIVE CandidatesIn(_)
CandidatesIn(S) ==
  IF S = {} THEN 0
  ELSE LET k == CHOOSE x \in S : TRUE
       IN  Lookups(k) * Len(remote[k]) + CandidatesIn(S \ {k})

CandidatesInSnapshot == CandidatesIn(DOMAIN remote)

\* the identifier and the class of a row with these field values
OutcomeOf(row) ==
  LET k == Strip(row.Codigo)
      t == ext_token(row._feature_id, row._coords_json)
      tagged == {j \in ItemsOf(k) : t \in remote[k][j]}
      one(S) == qid_from_uri(ItemUri(k, CHOOSE j \in S : TRUE))
  IN  IF Lookups(k) * Cardinality(ItemsOf(k)) = 0 THEN [qid |-> NoneQid, class |-> "unresolved"]
      ELSE IF Lookups(k) * Cardinality(ItemsOf(k)) = 1 THEN [qid |-> one(ItemsOf(k)), class |-> "resolved"]
      ELSE IF Lookups(k) * Cardinality(tagged) = 1 THEN [qid |-> one(tagged), class |-> "resolved"]
      ELSE [qid |-> NoneQid, class |-> "ambiguous"]

\* C21: every run over the same rows and the same remote snapshot issues the
\* same batch queries (those of the sorted distinct keys), and the identifier of
\* each row and the counts are those the rows and the snapshot determine,
\* whatever order the remote answers in; rows with the same field values have
\* the same identifier wherever they stand among the rows.
C21_Determinism ==
  /\ Len(queries) <= Len(QueriesFor(RowKeys))
  /\ queries = SubSeq(QueriesFor(RowKeys), 1, Len(queries))
  /\ m_pc \in {"resolve", "done"} =>
        /\ Len(queries) = Len(QueriesFor(RowKeys))
        /\ total_candidates = CandidatesInSnapshot
  /\ \A i \in 1..row_i : chosen_qids[i] = OutcomeOf(rows_in[i]).qid
  /\ unresolved = Cardinality({i \in 1..row_i : OutcomeOf(rows_in[i]).class = "unresolved"})
  /\ ambiguous = Cardinality({i \in 1..row_i : OutcomeOf(rows_in[i]).class = "ambiguous"})
  /\ \A i, j \in 1..row_i : rows_in[i] = rows_in[j] => chosen_qids[i] = chosen_qids[j]
  /\ m_pc = "done" =>
        \A i \in DOMAIN df :
          df[i].wikidata = IF OutcomeOf(rows_in[i]).class = "resolved"
                             THEN OutcomeOf(rows_in[i]).qid ELSE EmptyQid

\* a finished run in which the remote answered a query in the other order, one
\* row was resolved by its tag among two candidates and another stayed ambiguous
C21_Witness ==
  /\ m_pc = "done"
  /\ \E q \in DOMAIN responses : responses[q] # Bindings(queries[q].values)
  /\ \E i \in 1..row_i :
        /\ Len(CandidatesOfRow(i)) = 2
        /\ OutcomeOf(rows_in[i]).class = "resolved"
        /\ df[i].wikidata = OutcomeOf(rows_in[i]).qid
  /\ \E i \in 1..row_i : OutcomeOf(rows_in[i]).class = "ambiguous"

\* with_qid of the summary line (line 220): the rows whose wikidata is not empty
WithQid == Cardinality({i \in DOMAIN df : df[i].wikidata # EmptyQid})

\* C23: when the reconciliation ends, rows = with_qid + unresolved + ambiguous;
\* while the rows are being resolved the same holds of the rows resolved so
\* far, and no row with an identifier was counted unresolved or ambiguous.
C23_CountPartition ==
  /\ row_i = Cardinality({i \in 1..row_i : chosen_qids[i] # NoneQid}) + unresolved + ambiguous
  /\ m_pc = "done" =>
        /\ Len(df) = Len(rows_in)
        /\ Len(df) = WithQid + unresolved + ambiguous
        /\ \A i \in DOMAIN df : df[i].wikidata # EmptyQid <=> chosen_qids[i] # NoneQid

\* a finished run of two rows, one with an identifier and one ambiguous
C23_Witness ==
  /\ m_pc = "done"
  /\ Len(df) = 2
  /\ WithQid = 1
  /\ ambiguous = 1
  /\ unresolved = 0

\* the identifiers of the candidates the remote returned for business key k
ReturnedQids(k) == {qid_from_uri(ReturnedFor(k)[j].item) : j \in DOMAIN ReturnedFor(k)}

\* C24: a row with an identifier has the identifier of a candidate that was
\* returned with the row's own (stripped) business key as its code, and that
\* the remote holds for that key; no row has an identifier returned only for
\* another key.
C24_OwnCandidatesOnly ==
  /\ \A i \in 1..row_i :
        chosen_qids[i] # NoneQid =>
          /\ chosen_qids[i] \in ReturnedQids(Strip(rows_in[i].Codigo))
          /\ chosen_qids[i].code = Strip(rows_in[i].Codigo)
          /\ chosen_qids[i].idx \in ItemsOf(Strip(rows_in[i].Codigo))
  /\ m_pc = "done" =>
        \A i \in DOMAIN df :
          df[i].wikidata # EmptyQid =>
            df[i].wikidata \in ReturnedQids(Strip(rows_in[i].Codigo))

\* a finished run where candidates were returned for one key only: the row with
\* that key has the candidate's identifier, the row with the other key has none
C24_Witness ==
  /\ m_pc = "done"
  /\ Len(df) = 2
  /\ \E i, j \in DOMAIN df :
        /\ Strip(rows_in[i].Codigo) # Strip(rows_in[j].Codigo)
        /\ Strip(rows_in[j].Codigo) # <<>>
        /\ df[i].wikidata \in ReturnedQids(Strip(rows_in[i].Codigo))
        /\ ReturnedQids(Strip(rows_in[j].Codigo)) = {}
        /\ df[j].wikidata = EmptyQid

----------------------------------------------------------------------------
(* merge_qids_back.py: the batch loop in time *)

\* THROTTLE_SECS = 2.8, in milliseconds
THROTTLE_MS == 2800

RETRIES == 5

\* BACKOFF = 1.6, in tenths
BACKOFF_TENTHS == 16

\* largest number of batches
MaxBatches == 3

\* how long a request can take, in milliseconds
Durations == {0, 3000}

RECURSIVE Pow(_, _)
Pow(b, e) == IF e = 0 THEN 1 ELSE b * Pow(b, e - 1)

\* (BACKOFF ** (attempt - 1)) + 0.1 * attempt, in milliseconds
BackoffSleep(k) == (1000 * Pow(BACKOFF_TENTHS, k - 1)) \div Pow(10, k - 1) + 100 * k

\* a loop that never sleeps between batches
ThrottleSleep_None(elapsed) == 0

\* lines 189-191: the sleep that follows a batch
ThrottleSleep(elapsed) == IF elapsed < THROTTLE_MS THEN THROTTLE_MS - elapsed ELSE 0

NoGap == -1

\* line 75: the failure of attempt k is re-raised
RaisesAt(k) == k >= RETRIES

ClockIdle ==
  /\ n_batches = 0
  /\ t_pc = "idle"
  /\ t_batch = 0
  /\ s_attempt = 0
  /\ s_retry_lines = <<>>
  /\ c_elapsed = 0
  /\ c_since_first = 0
  /\ c_since_last = 0
  /\ req_gap = NoGap
  /\ last_gap = NoGap
  /\ prev_instant = FALSE

ClockInit ==
  /\ n_batches \in 0..MaxBatches
  /\ t_pc = IF n_batches = 0 THEN "done" ELSE "top"
  /\ t_batch = 0
  /\ s_attempt = 0
  /\ s_retry_lines = <<>>
  /\ c_elapsed = 0
  /\ c_since_first = 0
  /\ c_since_last = 0
  /\ req_gap = NoGap
  /\ last_gap = NoGap
  /\ prev_instant = FALSE

\* line 170-172: batch_start = time.time(), the query is built, http_post_sparql is entered
BeginBatch ==
  /\ t_pc = "top"
  /\ c_elapsed' = 0
  /\ s_attempt' = 0
  /\ s_retry_lines' = <<>>
  /\ t_pc' = "post"
  /\ UNCHANGED <<n_batches, t_batch, c_since_first, c_since_last, req_gap, last_gap, prev_instant>>
  /\ UNCHANGED <<httpVars, fetchVars, mergeVars, runVars, tokenVars, recVars>>

\* One iteration of the loop of http_post_sparql (lines 66-79): the request is
\* sent and takes d; on success main() handles the bindings and sleeps out the
\* rest of the interval (lines 175-191), on failure the attempt is retried after
\* its backoff sleep or the failure is raised.
Post(d, ok) ==
  /\ t_pc = "post"
  /\ s_attempt' = s_attempt + 1
  /\ s_retry_lines' = IF ~ok /\ ~RaisesAt(s_attempt')
                         THEN Append(s_retry_lines, s_attempt') ELSE s_retry_lines
  /\ req_gap' = IF s_attempt' = 1 THEN (IF t_batch = 0 THEN NoGap ELSE c_since_first) ELSE req_gap
  /\ last_gap' = IF s_attempt' = 1 THEN (IF t_batch = 0 THEN NoGap ELSE c_since_last) ELSE last_gap
  /\ LET since_first == IF s_attempt' = 1 THEN 0 ELSE c_since_first
         pause == IF ok THEN ThrottleSleep(c_elapsed + d)
                  ELSE IF RaisesAt(s_attempt') THEN 0
                  ELSE BackoffSleep(s_attempt')
     IN  /\ c_elapsed' = c_elapsed + d + pause
         /\ c_since_first' = since_first + d + pause
         /\ c_since_last' = d + pause
  /\ IF ok
       THEN /\ t_batch' = t_batch + 1
            /\ prev_instant' = (s_attempt' = 1 /\ d = 0)
            /\ t_pc' = IF t_batch' = n_batches THEN "done" ELSE "top"
     ELSE /\ t_pc' = IF RaisesAt(s_attempt') THEN "raised" ELSE "post"
          /\ UNCHANGED <<t_batch, prev_instant>>
  /\ UNCHANGED n_batches
  /\ UNCHANGED <<httpVars, fetchVars, mergeVars, runVars, tokenVars, recVars>>

ThrottleNext ==
  \/ BeginBatch
  \/ \E d \in Durations, ok \in BOOLEAN : Post(d, ok)

\* C9: for every pair of consecutive batches, the time from the start of batch
\* i's lookup request to the start of batch i+1's lookup request is at least
\* THROTTLE_SECS, also when batch i's request returned at once.
C9_RateLimitFloor ==
  /\ req_gap # NoGap => req_gap >= THROTTLE_MS
  /\ (t_batch >= 1 /\ t_pc = "post" /\ s_attempt >= 1) => req_gap # NoGap

\* C11 (as claimed): a lookup that fails on every attempt is attempted
\* RETRIES + 1 times and prints exactly RETRIES retry lines before its failure
\* is raised, as get_with_retries does with max_retries (C3_RetryBound).
C11_SameRetryDiscipline ==
  t_pc = "raised" => (s_attempt = RETRIES + 1 /\ Len(s_retry_lines) = RETRIES)

C9_Witness ==
  /\ t_batch = 1
  /\ t_pc = "post"
  /\ s_attempt = 1
  /\ prev_instant
  /\ req_gap = THROTTLE_MS

\* C22 (as claimed): for every pair of consecutive batches, the time from the
\* sending of the last request of batch i (the attempt that succeeded, a retry
\* included) to the sending of the first request of batch i+1 is at least
\* THROTTLE_SECS.
C22_MinDelayAcrossRetries ==
  last_gap # NoGap => last_gap >= THROTTLE_MS

----------------------------------------------------------------------------
(* download_bolivia_electricity_map.py: records, provenance, flattening, CSV *)

\* Python values: None, str (a sequence of tokens), int, dict (a function from keys)
PyNone == [none |-> TRUE]

PyStr(s) == [str |-> s]

PyInt(i) == [int |-> i]

PyDict(d) == [dict |-> d]

IsStr(v) == DOMAIN v = {"str"}

IsDict(v) == DOMAIN v = {"dict"}

\* bool(v)
Truthy(v) ==
  CASE v = PyNone -> FALSE
    [] IsStr(v) -> v.str # <<>>
    [] DOMAIN v = {"int"} -> v.int # 0
    [] IsDict(v) -> DOMAIN v.dict # {}
    [] OTHER -> TRUE

EmptyDict == [k \in {} |-> PyNone]

\* d.get(k, default)
Get(d, k, default) == IF k \in DOMAIN d THEN d[k] ELSE default

\* d[k] = v
SetItem(d, k, v) == [x \in DOMAIN d \cup {k} |-> IF x = k THEN v ELSE d[x]]

\* a setdefault that assigns whether or not the key is there
SetDefault_Assign(d, k, v) == SetItem(d, k, v)

\* d.setdefault(k, v), as it leaves d
SetDefault(d, k, v) == IF k \in DOMAIN d THEN d ELSE SetItem(d, k, v)

LICENSE_HINT ==
  PyStr(<<"Check layer page for license; attribute Ministerio de Hidrocarburos y Energias">>)

ProvenanceKeys == {"_source_layer", "_layer_title", "_source_url", "_license_hint"}

TX_LAYER_KEY == "geonode:transmision_sin_20250131"

\* LAYERS, in insertion order
LAYERS ==
  << TX_LAYER_KEY, "geonode:gen_sin_20250131", "geonode:Subestaciones_SIN_AGO_20230",
     "geonode:Gen_Ais_2025" >>

\* LAYERS[layer]
TitleOf(layer) == PyStr(<<"title of ", layer>>)

\* line 224: every layer of LAYERS has its page in LAYER_PAGES
SrcUrl(layer) == PyStr(<<"https://geoportal.mhe.gob.bo/layers/", layer>>)

\* lines 226-232 for one feature whose "properties" is a dict or is missing
WithProvenance(f, layer, title) ==
  LET props0 == IF "properties" \in DOMAIN f THEN f["properties"].dict ELSE EmptyDict
      p1 == SetDefault(props0, "_source_layer", PyStr(<<layer>>))
      p2 == SetDefault(p1, "_layer_title", title)
      p3 == SetDefault(p2, "_source_url", SrcUrl(layer))
      p4 == SetDefault(p3, "_license_hint", LICENSE_HINT)
  IN  SetItem(f, "properties", PyDict(p4))

\* f.setdefault("properties", {}) gives None, and None has no setdefault
PropsIsNull(f) == "properties" \in DOMAIN f /\ f["properties"] = PyNone

\* add_metadata(fc, layer_name, title) on the features of fc: the loop raises
\* AttributeError at the first feature whose "properties" is null, with the
\* features before it already updated in place
add_metadata(feats, layer, title) ==
  LET bad == {i \in DOMAIN feats : PropsIsNull(feats[i])}
      stop == IF bad = {} THEN Len(feats) + 1 ELSE CHOOSE i \in bad : \A j \in bad : i <= j
  IN  [raised   |-> bad # {},
       features |-> [i \in DOMAIN feats |->
                       IF i < stop THEN WithProvenance(feats[i], layer, title) ELSE feats[i]]]

\* str(n) for the small numbers used
Digits == <<"0", "1", "2", "3", "4", "5", "6", "7", "8", "9">>

StrOfInt(n) == Digits[n + 1]

\* a JSON array of numbers
PyList(xs) == [list |-> xs]

RECURSIVE JoinNumbers(_)
JoinNumbers(xs) ==
  IF xs = <<>> THEN <<>>
  ELSE IF Len(xs) = 1 THEN <<StrOfInt(xs[1])>>
  ELSE <<StrOfInt(xs[1]), ",">> \o JoinNumbers(Tail(xs))

\* json.dumps(v, ensure_ascii=False, separators=(",", ":")) of None or an array
JsonDumps(v) == IF v = PyNone THEN <<"null">> ELSE <<"[">> \o JoinNumbers(v.list) \o <<"]">>

\* line 289: f.get("id", i)
FeatureId(f, i) == Get(f, "id", PyInt(i))

\* lines 287-297 for the i-th feature
FlattenRow(f, i) ==
  LET props == IF "properties" \in DOMAIN f /\ Truthy(f["properties"])
                 THEN f["properties"].dict ELSE EmptyDict
      geom  == IF "geometry" \in DOMAIN f /\ Truthy(f["geometry"])
                 THEN f["geometry"].dict ELSE EmptyDict
      r1 == SetItem(props, "_feature_id", FeatureId(f, i))
      r2 == SetItem(r1, "_geometry_type", Get(geom, "type", PyStr(<<>>)))
  IN  SetItem(r2, "_coords_json", PyStr(JsonDumps(Get(geom, "coordinates", PyNone))))

\* _flatten_transmission_rows(fc) on the features of fc
_flatten_transmission_rows(feats) == [i \in DOMAIN feats |-> FlattenRow(feats[i], i)]

CSV_COLS ==
  << "_feature_id", "_geometry_type", "_coords_json",
     "fid", "OBJECTID", "Codigo", "AREA", "PROPIETARI", "STI", "TRAMO", "TIPO", "N_CIRCU",
     "Un", "Long", "Pn", "NODO_1", "INTERR_1", "NODO_2", "INTERR_2", "In_", "Sbase",
     "R1", "X1", "C1", "R0", "X0", "C0", "Zc", "Sn", "SOBCAR15", "SOBCAR30", "R11", "X11",
     "Qvacio",
     "_source_layer", "_layer_title", "_source_url", "_license_hint" >>

CsvColSet == {CSV_COLS[i] : i \in DOMAIN CSV_COLS}

\* the fields rewritten by a normalization that takes every field
NumericFields_All == CsvColSet

\* line 309: for k in ("Pn", "Sn")
NumericFields == {"Pn", "Sn"}

\* s.replace(",", ".")
CommaToDot(s) == [i \in DOMAIN s |-> IF s[i] = "," THEN "." ELSE s[i]]

\* lines 308-311 for one row
NormalizeNumeric(r) ==
  [k \in DOMAIN r |->
     IF k \in NumericFields /\ IsStr(r[k]) THEN PyStr(CommaToDot(r[k].str)) ELSE r[k]]

\* lines 314-317 for one row
FillColumns(r) ==
  [c \in DOMAIN r \cup CsvColSet |-> IF c \notin DOMAIN r \/ r[c] = PyNone THEN PyStr(<<>>) ELSE r[c]]

\* the text csv.DictWriter writes for a value
CsvCell(v) ==
  CASE IsStr(v) -> v.str
    [] v = PyNone -> <<>>
    [] DOMAIN v = {"int"} -> <<StrOfInt(v.int)>>
    [] OTHER -> <<"repr">>

\* _write_csv_strict(path, rows): the rows as the call leaves them, and the
\* file written (its header and one line per row, a cell per column of CSV_COLS)
_write_csv_strict(rows) ==
  IF rows = <<>>
    THEN [rows |-> rows, header |-> <<>>, lines |-> <<>>]
  ELSE LET done == [i \in DOMAIN rows |-> FillColumns(NormalizeNumeric(rows[i]))]
       IN  [rows   |-> done,
            header |-> CSV_COLS,
            lines  |-> [i \in DOMAIN done |-> [c \in CsvColSet |-> CsvCell(Get(done[i], c, PyStr(<<>>)))]]]

----------------------------------------------------------------------------
(* download_bolivia_electricity_map.py: run *)

NoFile == [written |-> FALSE]

\* the subsequences of LAYERS that the ONLY filter can leave (lines 333-336)
RECURSIVE SubSeqs(_)
SubSeqs(sq) ==
  IF sq = <<>> THEN {<<>>}
  ELSE LET rest == SubSeqs(Tail(sq)) IN rest \cup {<<Head(sq)>> \o r : r \in rest}

LayerLists == SubSeqs(LAYERS)

\* Features a layer can carry: a line with properties, and a record whose
\* "properties" is null
FeatureA ==
  [k \in {"id", "properties", "geometry"} |->
     CASE k = "id" -> PyStr(<<"transmision_sin.1">>)
       [] k = "properties" ->
            PyDict([p \in {"Codigo", "Pn"} |->
                      IF p = "Codigo" THEN PyStr(<<"CAR-SAD500">>) ELSE PyStr(<<"1", ",", "23">>)])
       [] k = "geometry" ->
            PyDict([g \in {"type", "coordinates"} |->
                      IF g = "type" THEN PyStr(<<"LineString">>) ELSE PyList(<<1, 2>>)])]

FeatureNullProps ==
  [k \in {"id", "properties", "geometry"} |->
     CASE k = "id" -> PyStr(<<"gen.7">>)
       [] k = "properties" -> PyNone
       [] k = "geometry" -> PyNone]

\* What fetch_wfs_geojson gives run(): its failure, or a collection that is
\* never empty
FetchGives ==
  {[raises |-> TRUE, features |-> <<>>]}
    \cup [raises : {FALSE}, features : {<<FeatureA>>, <<FeatureA, FeatureNullProps>>}]

RunIdle ==
  /\ layer_list = <<>>
  /\ r_pc = "idle"
  /\ r_i = 0
  /\ merged = <<>>
  /\ successes = 0
  /\ failures = 0
  /\ r_log = <<>>
  /\ layer_files = {}
  /\ csv_file = NoFile
  /\ merged_file = NoFile

\* lines 329-341
RunInit ==
  /\ layer_list \in LayerLists
  /\ r_pc = "loop"
  /\ r_i = 0
  /\ merged = <<>>
  /\ successes = 0
  /\ failures = 0
  /\ r_log = <<>>
  /\ layer_files = {}
  /\ csv_file = NoFile
  /\ merged_file = NoFile

\* One iteration of the dataset loop (lines 343-379).  _number_matched catches
\* every exception itself.  fo is what fetch_wfs_geojson gives; gj_ok and
\* csv_ok tell whether writing the layer's GeoJSON and the CSV succeeds (an
\* OSError is an Exception, so the handler of line 377 takes it as well).
ProcessLayer(fo, gj_ok, csv_ok) ==
  /\ r_pc = "loop"
  /\ r_i < Len(layer_list)
  /\ LET layer == layer_list[r_i + 1]
         md == add_metadata(fo.features, layer, TitleOf(layer))
         saved == ~fo.raises /\ ~md.raised /\ gj_ok
         csv_step == saved /\ layer = TX_LAYER_KEY
         failed == ~saved \/ (csv_step /\ ~csv_ok)
     IN  /\ layer_files' = IF saved THEN layer_files \cup {layer} ELSE layer_files
         /\ merged' = IF saved THEN merged \o md.features ELSE merged
         /\ successes' = IF saved THEN successes + 1 ELSE successes
         /\ csv_file' = IF csv_step /\ csv_ok
                          THEN LET w == _write_csv_strict(_flatten_transmission_rows(md.features))
                               IN  [written |-> TRUE, header |-> w.header, lines |-> w.lines]
                        ELSE csv_file
         /\ failures' = IF failed THEN failures + 1 ELSE failures
         /\ r_log' = Append(r_log, [layer |-> layer,
                                    fetch |-> IF fo.raises THEN "raised" ELSE "returned",
                                    records |-> md.features,
                                    success |-> saved,
                                    failure |-> failed])
  /\ r_i' = r_i + 1
  /\ UNCHANGED <<layer_list, r_pc, merged_file>>
  /\ UNCHANGED <<httpVars, fetchVars, mergeVars, clockVars, tokenVars, recVars>>

\* lines 381-386: the merged collection is written outside any handler
FinishRun(ok) ==
  /\ r_pc = "loop"
  /\ r_i = Len(layer_list)
  /\ IF ok
       THEN /\ merged_file' = [written |-> TRUE, features |-> merged]
            /\ r_pc' = "done"
     ELSE /\ r_pc' = "raised"
          /\ UNCHANGED merged_file
  /\ UNCHANGED <<layer_list, r_i, merged, successes, failures, r_log, layer_files, csv_file>>
  /\ UNCHANGED <<httpVars, fetchVars, mergeVars, clockVars, tokenVars, recVars>>

RunNext ==
  \/ \E fo \in FetchGives, gj_ok \in BOOLEAN, csv_ok \in BOOLEAN : ProcessLayer(fo, gj_ok, csv_ok)
  \/ \E ok \in BOOLEAN : FinishRun(ok)

\* Download run: a dataset whose fetch raised is counted as one failure and
\* not as a success, the loop goes on to every remaining dataset, and the merged
\* output is written unless writing it fails itself.
DatasetFailureContained ==
  /\ \A i \in DOMAIN r_log : r_log[i].fetch = "raised" => (r_log[i].failure /\ ~r_log[i].success)
  /\ failures = Cardinality({i \in DOMAIN r_log : r_log[i].failure})
  /\ r_pc \in {"done", "raised"} => Len(r_log) = Len(layer_list)
  /\ r_pc = "done" => merged_file.written

\* a lookup whose terminal failure left http_post_sparql
LookupFailed == Len(queries) > Len(responses)

\* Reconciliation run: a batch lookup that failed terminally does not abort the run
LookupFailureContained == LookupFailed => m_pc \in {"batch", "resolve", "done"}

\* C12 (as claimed): no remote-service failure aborts a whole run: a dataset
\* whose fetch fails is counted as one failure, the remaining datasets are
\* processed and the merged output is written; a batch lookup that fails
\* terminally does not abort the reconciliation run.
C12_FailureContained == DatasetFailureContained /\ LookupFailureContained

\* the records of the datasets that did not end as a failure, in processing order
RecordsOfSucceeded ==
  Flatten([i \in DOMAIN r_log |-> IF r_log[i].failure THEN <<>> ELSE r_log[i].records])

\* C25 (as claimed): every processed dataset ends as a success (successes
\* incremented once, its records appended to merged) or as a failure (failures
\* incremented once, none of its records in merged), never both, and
\* successes + failures is the number of datasets processed.
C25_ExactlyOneOutcome ==
  /\ \A i \in DOMAIN r_log : r_log[i].success # r_log[i].failure
  /\ successes = Cardinality({i \in DOMAIN r_log : r_log[i].success})
  /\ failures = Cardinality({i \in DOMAIN r_log : r_log[i].failure})
  /\ successes + failures = Len(r_log)
  /\ merged = RecordsOfSucceeded

----------------------------------------------------------------------------
(* The disambiguation token at its two derivation sites.  Both programs read *)
(* the same INPUT_CSV: generate_qs_csv with pandas' type inference,          *)
(* merge_qids_back with dtype=str followed by fillna("").                    *)

\* largest number of rows of INPUT_CSV
MaxCells == 2

\* cell texts that pandas.read_csv takes for a missing value
NaTexts == { <<>>, <<"null">> }

\* the _feature_id cells the download writes: a native id, an ordinal, nothing
FidCells == { <<"transmision_sin.1">>, <<"7">>, <<>> }

\* the _coords_json cells the download writes: an array, "null" for a record
\* without coordinates, nothing, and two arrays longer than 256 characters
\* that differ only after the 256th
CoordsCells ==
  { <<"[[", "1", ",", "2", "]]">>, <<"null">>, <<>>,
    <<"[[", "1", "PAD256", ",", "2", "]]">>, <<"[[", "1", "PAD256", ",", "3", "]]">> }

CellRows == [fid : FidCells, coords : CoordsCells]

IsNA(cell) == cell \in NaTexts

IsNumberText(cell) == cell \in { <<"7">> }

\* the dtype pandas infers for a column read without dtype=
ColumnKind(col) ==
  IF \A i \in DOMAIN col : IsNA(col[i]) \/ IsNumberText(col[i])
    THEN (IF \E i \in DOMAIN col : IsNA(col[i]) THEN "float64" ELSE "int64")
  ELSE "object"

\* str(r.get(column)) in generate_qs_csv: a missing value is the float nan, an
\* integer in a column with missing values is a float
InferredText(col, i) ==
  IF IsNA(col[i]) THEN <<"nan">>
  ELSE IF ColumnKind(col) = "float64" THEN col[i] \o <<".0">>
  ELSE col[i]

\* merge_qids_back lines 144, 153-154: dtype=str, then fillna("").astype(str)
FilledText(cell) == IF IsNA(cell) THEN <<>> ELSE cell

FidColumn == [i \in DOMAIN in_cells |-> in_cells[i].fid]

CoordsColumn == [i \in DOMAIN in_cells |-> in_cells[i].coords]

\* generate_qs_csv lines 147-149
QsToken(i) == ext_token(InferredText(FidColumn, i), Strip(InferredText(CoordsColumn, i)))

\* merge_qids_back line 160
MqToken(i) == ext_token(FilledText(in_cells[i].fid), FilledText(in_cells[i].coords))

TokensIdle ==
  /\ in_cells = <<>>
  /\ qs_done = FALSE
  /\ qs_tokens = <<>>
  /\ mq_done = FALSE
  /\ mq_tokens = <<>>

TokensInit ==
  /\ in_cells \in SeqsUpTo(CellRows, MaxCells) \ {<<>>}
  /\ qs_done = FALSE
  /\ qs_tokens = <<>>
  /\ mq_done = FALSE
  /\ mq_tokens = <<>>

\* generate_qs_csv.main, lines 129-159: the token of every row
GenerateQs ==
  /\ in_cells # <<>>
  /\ ~qs_done
  /\ qs_done' = TRUE
  /\ qs_tokens' = [i \in DOMAIN in_cells |-> QsToken(i)]
  /\ UNCHANGED <<in_cells, mq_done, mq_tokens>>
  /\ UNCHANGED <<httpVars, fetchVars, mergeVars, clockVars, runVars, recVars>>

\* merge_qids_back.main, lines 144-160: the _ext_token column
MergeTokens ==
  /\ in_cells # <<>>
  /\ ~mq_done
  /\ mq_done' = TRUE
  /\ mq_tokens' = [i \in DOMAIN in_cells |-> MqToken(i)]
  /\ UNCHANGED <<in_cells, qs_done, qs_tokens>>
  /\ UNCHANGED <<httpVars, fetchVars, mergeVars, clockVars, runVars, recVars>>

TokensNext == GenerateQs \/ MergeTokens

\* C15 (as claimed): for every row of the normalized input file, the token
\* generate_qs_csv embeds in the tag equals the token merge_qids_back recomputes
\* for that row.
C15_TokenAgreement ==
  (qs_done /\ mq_done) => \A i \in DOMAIN in_cells : qs_tokens[i] = mq_tokens[i]

\* the arguments each site passes to ext_token for row i
QsArgs(i) == [fid |-> InferredText(FidColumn, i), coords |-> Strip(InferredText(CoordsColumn, i))]

MqArgs(i) == [fid |-> FilledText(in_cells[i].fid), coords |-> FilledText(in_cells[i].coords)]

\* two geometry texts agree on their first 256 characters: they are equal, or
\* equal up to the filler that ends the 256th character of both
SamePrefix256(a, b) ==
  \/ a = b
  \/ \E n \in DOMAIN a \cap DOMAIN b :
        /\ a[n] = "PAD256" /\ b[n] = "PAD256"
        /\ \A k \in 1..n : a[k] = b[k]

SameBasis(x, y) == x.fid = y.fid /\ SamePrefix256(x.coords, y.coords)

\* C27: at either site and across the two sites, two calls of ext_token whose
\* identity arguments are equal and whose geometry arguments agree on their
\* first 256 characters give the same token, whatever follows the 256th
\* character.
C27_TokenPurity ==
  \A i, j \in DOMAIN in_cells :
    /\ (qs_done /\ SameBasis(QsArgs(i), QsArgs(j))) => qs_tokens[i] = qs_tokens[j]
    /\ (mq_done /\ SameBasis(MqArgs(i), MqArgs(j))) => mq_tokens[i] = mq_tokens[j]
    /\ (qs_done /\ mq_done /\ SameBasis(QsArgs(i), MqArgs(j))) => qs_tokens[i] = mq_tokens[j]

\* two rows with the same identity whose geometry texts differ after the 256th
\* character only have the same token at both sites
C27_Witness ==
  /\ qs_done /\ mq_done
  /\ \E i, j \in DOMAIN in_cells :
        /\ in_cells[i].fid = in_cells[j].fid
        /\ in_cells[i].fid # <<>>
        /\ in_cells[i].coords # in_cells[j].coords
        /\ SamePrefix256(in_cells[i].coords, in_cells[j].coords)
        /\ qs_tokens[i] = qs_tokens[j]
        /\ mq_tokens[i] = mq_tokens[j]
        /\ qs_tokens[i] = mq_tokens[j]

----------------------------------------------------------------------------
(* download_bolivia_electricity_map.py: a collection taken through           *)
(* add_metadata, _flatten_transmission_rows and _write_csv_strict            *)

\* largest number of features of the collection
MaxRecs == 2

\* largest number of add_metadata calls on one collection
MaxMdCalls == 2

PropsPlain ==
  [k \in {"Codigo", "Pn", "Sn", "TRAMO"} |->
     CASE k = "Codigo" -> PyStr(<<"CAR-SAD500">>)
       [] k = "Pn"     -> PyStr(<<"1", ",", "23">>)
       [] k = "Sn"     -> PyNone
       [] k = "TRAMO"  -> PyStr(<<"a", ",", "b">>)]

PropsTagged ==
  [k \in {"_source_layer", "Pn", "Sn", "note"} |->
     CASE k = "_source_layer" -> PyStr(<<"elsewhere">>)
       [] k = "Pn"            -> PyInt(5)
       [] k = "Sn"            -> PyStr(<<"4", ",", "5">>)
       [] k = "note"          -> PyStr(<<"x", ",", "y">>)]

GeomLine ==
  PyDict([g \in {"type", "coordinates"} |->
            IF g = "type" THEN PyStr(<<"LineString">>) ELSE PyList(<<1, 2>>)])

\* a feature from its members; "absent" leaves the member out
MissingMember == [absent |-> TRUE]

MakeFeature(id, props, geom) ==
  LET all == [k \in {"id", "properties", "geometry"} |->
                CASE k = "id" -> id [] k = "properties" -> props [] k = "geometry" -> geom]
  IN  [k \in {m \in DOMAIN all : all[m] # MissingMember} |-> all[k]]

RecFeatures ==
  { MakeFeature(PyStr(<<"transmision_sin.1">>), PyDict(PropsPlain), GeomLine),
    MakeFeature(MissingMember, PyDict(PropsPlain), GeomLine),
    MakeFeature(PyNone, PyDict(PropsTagged), PyNone),
    MakeFeature(PyStr(<<>>), MissingMember, GeomLine),
    MakeFeature(PyStr(<<"gen.7">>), PyNone, MissingMember),
    MakeFeature(MissingMember, PyDict(PropsTagged), GeomLine) }

MdLayers == {TX_LAYER_KEY, "geonode:gen_sin_20250131"}

RecordsIdle ==
  /\ rec_in = <<>>
  /\ rec_feats = <<>>
  /\ rec_pc = "idle"
  /\ md_calls = 0
  /\ md_raised = FALSE
  /\ md_first = <<>>
  /\ rec_flat = <<>>
  /\ rec_rows = <<>>
  /\ rec_csv = NotWritten

RecordsInit ==
  /\ rec_in \in SeqsUpTo(RecFeatures, MaxRecs)
  /\ rec_feats = rec_in
  /\ rec_pc = "features"
  /\ md_calls = 0
  /\ md_raised = FALSE
  /\ md_first = <<>>
  /\ rec_flat = <<>>
  /\ rec_rows = <<>>
  /\ rec_csv = NotWritten

\* fc = add_metadata(fc, layer, title)
AddMetadata(layer) ==
  /\ rec_pc = "features"
  /\ md_calls < MaxMdCalls
  /\ LET md == add_metadata(rec_feats, layer, TitleOf(layer))
     IN  /\ rec_feats' = md.features
         /\ md_raised' = md.raised
         /\ md_first' = IF md_calls = 0 THEN md.features ELSE md_first
  /\ md_calls' = md_calls + 1
  /\ UNCHANGED <<rec_in, rec_pc, rec_flat, rec_rows, rec_csv>>
  /\ UNCHANGED <<httpVars, fetchVars, mergeVars, clockVars, runVars, tokenVars>>

\* rows = _flatten_transmission_rows(fc)
FlattenRows ==
  /\ rec_pc = "features"
  /\ rec_flat' = _flatten_transmission_rows(rec_feats)
  /\ rec_rows' = rec_flat'
  /\ rec_pc' = "flat"
  /\ UNCHANGED <<rec_in, rec_feats, md_calls, md_raised, md_first, rec_csv>>
  /\ UNCHANGED <<httpVars, fetchVars, mergeVars, clockVars, runVars, tokenVars>>

\* _write_csv_strict(csv_path, rows)
WriteCsv ==
  /\ rec_pc = "flat"
  /\ LET w == _write_csv_strict(rec_rows)
     IN  /\ rec_rows' = w.rows
         /\ rec_csv' = [written |-> TRUE, header |-> w.header, lines |-> w.lines]
  /\ rec_pc' = "written"
  /\ UNCHANGED <<rec_in, rec_feats, md_calls, md_raised, md_first, rec_flat>>
  /\ UNCHANGED <<httpVars, fetchVars, mergeVars, clockVars, runVars, tokenVars>>

RecordsNext ==
  \/ \E layer \in MdLayers : AddMetadata(layer)
  \/ FlattenRows
  \/ WriteCsv

\* the record has a native id
HasNativeId(f) == "id" \in DOMAIN f /\ f["id"] # PyNone

\* C18 (as claimed): the row of the i-th record has as _feature_id the record's
\* native id when it has one and otherwise i, and never an empty or null one.
C18_IdentityNeverEmpty ==
  rec_pc \in {"flat", "written"} =>
    \A i \in DOMAIN rec_flat :
       /\ rec_flat[i]["_feature_id"]
            = IF HasNativeId(rec_feats[i]) THEN rec_feats[i]["id"] ELSE PyInt(i)
       /\ rec_flat[i]["_feature_id"] \notin {PyNone, PyStr(<<>>)}

\* C19: in the file written, a text value of Pn or Sn has every comma replaced
\* by a period and every other cell is the text of the value the row had (the
\* empty text for a missing or null value); in the rows themselves a text value
\* of Pn or Sn is rewritten the same way and every other value that is not null
\* is as it was.
C19_NumericNormalization ==
  (rec_pc = "written" /\ rec_flat # <<>>) =>
    \A i \in DOMAIN rec_flat :
       /\ \A c \in CsvColSet :
             LET before == Get(rec_flat[i], c, PyNone)
             IN  rec_csv.lines[i][c]
                   = IF c \in {"Pn", "Sn"} /\ IsStr(before)
                       THEN [j \in DOMAIN before.str |->
                               IF before.str[j] = "," THEN "." ELSE before.str[j]]
                     ELSE CsvCell(before)
       /\ \A k \in DOMAIN rec_flat[i] :
             LET before == rec_flat[i][k]
             IN  IF k \in {"Pn", "Sn"} /\ IsStr(before)
                   THEN rec_rows[i][k] = PyStr(CommaToDot(before.str))
                 ELSE before # PyNone => rec_rows[i][k] = before

C19_Witness ==
  /\ rec_pc = "written"
  /\ \E i \in DOMAIN rec_flat :
        /\ {"Pn", "Sn", "TRAMO"} \subseteq DOMAIN rec_flat[i]
        /\ rec_flat[i]["Sn"] = PyNone
        /\ rec_flat[i]["Pn"] = PyStr(<<"1", ",", "23">>)
        /\ rec_csv.lines[i]["Pn"] = <<"1", ".", "23">>
        /\ rec_csv.lines[i]["TRAMO"] = <<"a", ",", "b">>
        /\ rec_csv.lines[i]["_coords_json"] = <<"[", "1", ",", "2", "]">>
        /\ rec_csv.lines[i]["Sn"] = <<>>

PropsOf(f) == IF "properties" \in DOMAIN f THEN f["properties"].dict ELSE EmptyDict

\* the provenance values some add_metadata call supplies
SuppliedBy(layer, key) ==
  CASE key = "_source_layer"  -> PyStr(<<layer>>)
    [] key = "_layer_title"   -> TitleOf(layer)
    [] key = "_source_url"    -> SrcUrl(layer)
    [] key = "_license_hint"  -> LICENSE_HINT

\* C20: after add_metadata every record has the attributes it had, unchanged,
\* except that its properties may have gained provenance fields it did not
\* have; a provenance field it had keeps its value, a completed call leaves all
\* four fields on every record, and a second call changes nothing.
C20_ProvenanceNeverOverwrites ==
  md_calls >= 1 =>
    /\ Len(rec_feats) = Len(rec_in)
    /\ \A i \in DOMAIN rec_in :
          LET f == rec_in[i]
              g == rec_feats[i]
          IN  /\ DOMAIN f \subseteq DOMAIN g
              /\ DOMAIN g \subseteq DOMAIN f \cup {"properties"}
              /\ \A k \in DOMAIN f \ {"properties"} : g[k] = f[k]
              /\ PropsIsNull(f) => g = f
              /\ ( ~PropsIsNull(f) /\ "properties" \in DOMAIN g ) =>
                    /\ DOMAIN PropsOf(f) \subseteq DOMAIN PropsOf(g)
                    /\ \A k \in DOMAIN PropsOf(f) : PropsOf(g)[k] = PropsOf(f)[k]
                    /\ DOMAIN PropsOf(g) \ DOMAIN PropsOf(f) \subseteq ProvenanceKeys
                    /\ \A k \in DOMAIN PropsOf(g) \ DOMAIN PropsOf(f) :
                          \E layer \in MdLayers : PropsOf(g)[k] = SuppliedBy(layer, k)
              /\ ~md_raised => ProvenanceKeys \subseteq DOMAIN PropsOf(g)
    /\ md_calls >= 2 => rec_feats = md_first

C20_Witness ==
  /\ md_calls = 2
  /\ ~md_raised
  /\ rec_feats = md_first
  /\ \E i \in DOMAIN rec_in :
        /\ "properties" \in DOMAIN rec_in[i]
        /\ rec_in[i]["properties"] = PyDict(PropsTagged)
        /\ PropsOf(rec_feats[i])["_source_layer"] = PyStr(<<"elsewhere">>)
        /\ PropsOf(rec_feats[i])["_license_hint"] = LICENSE_HINT
        /\ PropsOf(rec_feats[i])["_layer_title"] = TitleOf(TX_LAYER_KEY)

----------------------------------------------------------------------------
(* get_with_retries, continued *)

\* One iteration of `while True`: the request, the checks, and the except clause.
GetAttempt(o) ==
  /\ g_pc = "loop"
  /\ attempt' = attempt + 1
  /\ sent' = sent + 1
  /\ last' = o
  /\ LET e == TryBlock(o)
     IN  IF e.cls = "none"
           THEN /\ g_pc' = "returned"
                /\ result' = o
                /\ UNCHANGED <<retry_lines, sleeps, raised>>
         ELSE IF ~Caught(e.cls) \/ BudgetExhausted(attempt', max_retries)
           THEN /\ g_pc' = "raised"
                /\ raised' = [cls |-> e.cls, msg |-> e.msg, attempt |-> attempt']
                /\ UNCHANGED <<retry_lines, sleeps, result>>
         ELSE /\ retry_lines' = Append(retry_lines, attempt')
              /\ sleeps' = sleeps + 1
              /\ UNCHANGED <<g_pc, result, raised>>
  /\ UNCHANGED max_retries
  /\ UNCHANGED <<fetchVars, mergeVars, clockVars, runVars, tokenVars, recVars>>

HttpNext == \E o \in Outcomes : GetAttempt(o)

----------------------------------------------------------------------------
(* Properties of get_with_retries *)

TimeoutWords == {"timeout", "time out", "timed out"}

\* a body that contains a timeout-indicating substring, in any letter case
BodyIndicatesTimeout(body) == \E i \in DOMAIN body : LowerTok(body[i]) \in TimeoutWords

\* HTTP 200 delivering an HTML page that carries the error marker: textual
\* content type, and the literals "<html" and "error" in the leading 4000 characters
HtmlErrorPage200(o) ==
  /\ o.exc = "none"
  /\ o.status = 200
  /\ Contains(Lower(o.ctype), "text/") \/ Contains(Lower(o.ctype), "html")
  /\ Contains(Take4000(o.body), "<html")
  /\ Contains(Take4000(o.body), "error")

\* C3: when get_with_retries ends in a terminal failure (every attempt failed),
\* the failure carries the error of the last attempt, exactly max_retries retry
\* lines were logged with one sleep each, exactly max_retries + 1 requests were
\* sent, and no request is sent afterwards; the loop never goes past attempt
\* max_retries + 1.
C3_RetryBound ==
  /\ attempt <= max_retries + 1
  /\ (attempt = max_retries + 1 => g_pc # "loop")
  /\ g_pc = "raised" =>
        /\ raised.attempt = attempt
        /\ raised.cls = TryBlock(last).cls
        /\ raised.msg = TryBlock(last).msg
        /\ retry_lines = [k \in 1..max_retries |-> k]
        /\ sleeps = max_retries
        /\ sent = max_retries + 1

C3_Witness ==
  /\ g_pc = "raised"
  /\ max_retries = 3
  /\ last.status = 503
  /\ Len(retry_lines) = 3

\* C4 (as claimed): after an attempt answered with status 200 and an HTML error
\* page, the request is not sent again: the failure has been surfaced to the caller.
C4_HtmlErrorNotRetried ==
  (attempt > 0 /\ HtmlErrorPage200(last)) => (g_pc = "raised" /\ retry_lines = <<>>)

\* the outcomes the retry discipline names
NamedRetryable(o) ==
  \/ o.exc \in {"Timeout", "ConnectionError"}
  \/ o.exc = "none" /\ o.status \in RetryStatuses
  \/ o.exc = "none" /\ o.status = 400 /\ BodyIndicatesTimeout(o.body)

\* C5: while retry budget remains (fewer than max_retries retries made so far),
\* an attempt that ends in a network timeout, a connection failure, a status
\* 429/500/502/503/504, or a 400 whose body has a timeout-indicating substring in
\* any letter case, is followed by another attempt: a retry line is logged for
\* it and the loop continues, with nothing returned or raised.
C5_RetryableRetried ==
  (attempt > 0 /\ attempt <= max_retries /\ NamedRetryable(last)) =>
     /\ g_pc = "loop"
     /\ retry_lines # <<>>
     /\ retry_lines[Len(retry_lines)] = attempt
     /\ result = NoOutcome
     /\ raised = NoError

C5_Witness ==
  /\ g_pc = "loop"
  /\ attempt = 2
  /\ last.status = 400
  /\ last.body = <<"Timed Out">>
  /\ last.ctype = <<"application/", "json">>
  /\ retry_lines = <<1, 2>>

\* C6: get_with_retries ends in exactly one of two ways: it returns a response,
\* or it raises after the retry budget is exhausted.  A returned response never
\* has status 429/500/502/503/504 or any other 4xx/5xx status, and is never a
\* status-200 HTML page carrying the error marker.
C6_TwoOutcomes ==
  /\ g_pc \in {"loop", "returned", "raised"}
  /\ g_pc = "loop" => (result = NoOutcome /\ raised = NoError)
  /\ g_pc = "raised" =>
        /\ result = NoOutcome
        /\ raised # NoError
        /\ attempt > max_retries
        /\ Len(retry_lines) = max_retries
  /\ g_pc = "returned" =>
        /\ raised = NoError
        /\ result = last
        /\ result.exc = "none"
        /\ result.status \notin RetryStatuses
        /\ ~(result.status >= 400 /\ result.status < 600)
        /\ ~HtmlErrorPage200(result)

C6_Witness ==
  /\ g_pc = "returned"
  /\ attempt = 3
  /\ result.status = 200
  /\ result.ctype = <<"text/", "html">>
  /\ result.body = <<"<html">>

----------------------------------------------------------------------------
(* Specifications: one per program part, the other parts idle *)

InitFetch == FetchInit /\ ClockIdle /\ RunIdle /\ TokensIdle /\ RecordsIdle /\ HttpIdle /\ MergeIdle

SpecFetch == InitFetch /\ [][FetchNext]_vars

\* every HTTP call of a fetch ends, so the fetch takes its next step
SpecFetchFair == SpecFetch /\ WF_vars(FetchNext)

InitHttp == HttpInit /\ ClockIdle /\ RunIdle /\ TokensIdle /\ RecordsIdle /\ FetchIdle /\ MergeIdle

SpecHttp == InitHttp /\ [][HttpNext]_vars

\* Inputs of the batching runs: more rows and codes, one item per known code
MaxBatchRows == 4

BatchCodes == { <<>>, <<"A">>, <<"A", " ">>, <<"B">>, <<"C">>, <<"D">>, <<"D", DQ>> }

BatchRows ==
  [Codigo : BatchCodes, _feature_id : {"1"}, _coords_json : {CoordsA},
   _geometry_type : {"MultiLineString"}]

BatchSnapshot == [c \in {<<"A">>, <<"B">>, <<"D">>} |-> <<{}>>]

InitBatch ==
  /\ \E rows \in SeqsUpTo(BatchRows, MaxBatchRows) \ {<<>>} : MergeStart(rows, BatchSnapshot)
  /\ HttpIdle
  /\ FetchIdle
  /\ ClockIdle /\ RunIdle /\ TokensIdle /\ RecordsIdle

SpecBatch == InitBatch /\ [][MergeNext]_vars

InitThrottle ==
  /\ ClockInit
  /\ RunIdle
  /\ TokensIdle
  /\ RecordsIdle
  /\ HttpIdle
  /\ FetchIdle
  /\ MergeIdle

SpecThrottle == InitThrottle /\ [][ThrottleNext]_vars

InitRun ==
  /\ RunInit
  /\ TokensIdle
  /\ RecordsIdle
  /\ HttpIdle
  /\ FetchIdle
  /\ MergeIdle
  /\ ClockIdle

SpecRun == InitRun /\ [][RunNext]_vars

InitTokens ==
  /\ TokensInit
  /\ RecordsIdle
  /\ HttpIdle
  /\ FetchIdle
  /\ MergeIdle
  /\ ClockIdle
  /\ RunIdle

SpecTokens == InitTokens /\ [][TokensNext]_vars

InitRecords ==
  /\ RecordsInit
  /\ HttpIdle
  /\ FetchIdle
  /\ MergeIdle
  /\ ClockIdle
  /\ RunIdle
  /\ TokensIdle

SpecRecords == InitRecords /\ [][RecordsNext]_vars

InitMerge ==
  /\ \E rows \in SeqsUpTo(MergeRows, MaxRows) \ {<<>>}, snapshot \in Snapshots :
        MergeStart(rows, snapshot)
  /\ HttpIdle
  /\ FetchIdle
  /\ ClockIdle /\ RunIdle /\ TokensIdle /\ RecordsIdle

SpecMerge == InitMerge /\ [][MergeNext]_vars

====
